---------------------------- MODULE Spec2Model ----------------------------
(***************************************************************************)
(* Calendar -> extraction -> spreadsheet synchronisation (kikuchi-mizuki/   *)
(* apo).  The module models                                                 *)
(*   - the full-column worksheet and GoogleSheetsClient's upsert pass,      *)
(*   - CalendarSyncService.sync_calendar_to_sheets on top of it,            *)
(*   - the reduced-column worksheet Bookings_Simple,                        *)
(*   - HybridExtractor (rule result, model-backed result, merge),           *)
(*   - DataNormalizer's canonicalisation of names.                          *)
(* Each part has its own specification over the shared variables.           *)
(***************************************************************************)
EXTENDS Integers, Sequences, FiniteSets, TLC

VARIABLES
    worksheet,      \* data rows of the full-column sheet (header row 1 excluded)
    pc,             \* per pass: position inside upsert_booking_records / sync
    existing,       \* per pass: existing_records, the index read at pass start
    pending,        \* per pass: records of the batch not yet upserted
    counts,         \* per pass: [upserted, errors] of upsert_booking_records
    caller,         \* per pass: "direct" or "sync"
    sync_result,    \* per pass: the SyncResult being built / last returned
    audit,          \* per pass: bookkeeping of the running pass (history)
    clock,          \* the date datetime.now() falls on
    simple_ws,      \* Bookings_Simple: NoSheet or all rows (row 1 included)
    simple_last,    \* history: the last operation on Bookings_Simple
    hy,             \* HybridExtractor: threshold, last call's inputs, result, call count
    nm,             \* DataNormalizer: last input and its normalisations
    ru,             \* RuleBasedExtractor: last event and what was extracted from it
    vr,             \* DataNormalizer: last record validated and the verdict
    cl              \* CalendarSyncService: last cleanup_old_records call

vars == <<worksheet, pc, existing, pending, counts, caller, sync_result, audit,
          clock, simple_ws, simple_last, hy, nm, ru, vr, cl>>

-----------------------------------------------------------------------------
(* Bounds of the model *)

\* rows the full-column sheet may hold
MaxRows == 2
\* records in one batch handed to upsert_booking_records
MaxBatch == 2
\* pieces a company name handed to the normalizer is put together from
MaxPieces == 2
\* person names in one list handed to the normalizer
MaxNames == 2
\* rows below row 1 Bookings_Simple may hold
MaxSimpleRows == 2
\* days the clock may advance
MaxClock == 3
\* words in a title handed to the rule extractor
MaxTitleWords == 2
\* columns Bookings_Simple may grow to
MaxSimpleCols == 5

-----------------------------------------------------------------------------
(* Values *)

\* Python's None for an Optional[str] field
NoneStr == "<None>"

\* Strings the normalizer works on (company and person names) are sequences
\* of characters; a character is a one-element string, or a bracketed name
\* standing for one non-ASCII character ("(KK)" is U+3231, "kabu" U+682A ...).
\* None for such a field:
NoneName == <<"<None>">>

\* Python truthiness / `x or ''` of an Optional name
TruthyName(s) == s # NoneName /\ s # <<>>
OrEmptyName(s) == IF TruthyName(s) THEN s ELSE <<>>

\* Optional[float] None; confidences are in thousandths
NoneNum == -1

\* the empty cell of a numeric column ('' in the sheet)
EmptyNum == -2

\* Python truthiness of an Optional[str]
Truthy(s) == s # NoneStr /\ s # ""

\* `x or ''` for an Optional[str]
OrEmpty(s) == IF Truthy(s) THEN s ELSE ""

\* `x or ''` for an Optional[float]: None and 0.0 are both falsy
OrEmptyNum(n) == IF n = NoneNum \/ n = 0 THEN EmptyNum ELSE n

\* a datetime: calendar date, second of the day, sub-second part, tz-awareness
DateTime(d, s, f, a) == [date |-> d, sec |-> s, frac |-> f, aware |-> a]

\* strftime('%Y-%m-%d %H:%M:%S'): the sub-second part and the zone are dropped
StrfDateTime(dt) == <<dt.date, dt.sec>>

\* strftime('%Y-%m-%d'), as a cell of Bookings_Simple
StrfDate(dt) == <<ToString(dt.date)>>

\* a str holding JSON text: json.dumps of a list, or text that is not JSON
JsonDumps(list) == [wf |-> TRUE, list |-> list, raw |-> ""]
NotJson(text) == [wf |-> FALSE, list |-> <<>>, raw |-> text]


-----------------------------------------------------------------------------
(* DataNormalizer *)

\* str.replace(old, new): every non-overlapping occurrence, left to right
RECURSIVE Replace(_, _, _)
Replace(s, old, new) ==
    IF Len(s) < Len(old) THEN s
    ELSE IF SubSeq(s, 1, Len(old)) = old
         THEN new \o Replace(SubSeq(s, Len(old) + 1, Len(s)), old, new)
         ELSE <<Head(s)>> \o Replace(Tail(s), old, new)

\* characters str.strip() removes; "(fwsp)" is the fullwidth space U+3000
Whitespace == {" ", "(fwsp)"}

RECURSIVE LStrip(_)
LStrip(s) == IF s # <<>> /\ Head(s) \in Whitespace THEN LStrip(Tail(s)) ELSE s

RECURSIVE RStrip(_)
RStrip(s) ==
    IF s # <<>> /\ s[Len(s)] \in Whitespace THEN RStrip(SubSeq(s, 1, Len(s) - 1)) ELSE s

\* str.strip()
Strip(s) == RStrip(LStrip(s))

\* company_name_variations, in the dict's insertion order
company_name_variations ==
    << <<<<"(KK)">>, <<"kabu", "shiki", "kai", "sha">>>>,
       <<<<"(YG)">>, <<"yuu", "gen", "kai", "sha">>>>,
       <<<<"(GD)">>, <<"gou", "dou", "kai", "sha">>>>,
       <<<<"(IS)">>, <<"ippan", "sha", "dan", "hou", "jin">>>>,
       <<<<"(KS)">>, <<"koueki", "sha", "dan", "hou", "jin">>>>,
       <<<<"(IZ)">>, <<"ippan", "zai", "dan", "hou", "jin">>>>,
       <<<<"(KZ)">>, <<"koueki", "zai", "dan", "hou", "jin">>>>,
       <<<<"(SF)">>, <<"sha", "kai", "fuku", "shi", "hou", "jin">>>>,
       <<<<"(GH)">>, <<"gaku", "kou", "hou", "jin">>>>,
       <<<<"(IR)">>, <<"i", "ryou", "hou", "jin">>>>,
       <<<<"(SK)">>, <<"shuu", "kyou", "hou", "jin">>>>,
       <<<<"(NPO)">>, <<"toku", "tei", "hi", "ei", "ri", "katsu", "dou", "hou", "jin">>>>,
       <<<<"I", "n", "c">>, <<"I", "n", "c", ".">>>>,
       <<<<"L", "L", "C">>, <<"L", "L", "C">>>>,
       <<<<"L", "t", "d">>, <<"L", "t", "d", ".">>>>,
       <<<<"C", "o", "r", "p">>, <<"C", "o", "r", "p", ".">>>>,
       <<<<"C", "o">>, <<"C", "o", ".">>>> >>

\* the loop `for variation, standard in ...items(): normalized = replace(...)`
RECURSIVE ApplyVariations(_, _)
ApplyVariations(s, i) ==
    IF i > Len(company_name_variations) THEN s
    ELSE ApplyVariations(Replace(s, company_name_variations[i][1],
                                 company_name_variations[i][2]), i + 1)

\* _normalize_company_name
NormalizeCompanyName(company_name) ==
    IF ~TruthyName(company_name) THEN NoneName
    ELSE LET normalized == Strip(ApplyVariations(Strip(company_name), 1))
         IN IF normalized = <<>> THEN NoneName ELSE normalized

\* name_normalization_rules.  The four honorific rules replace the match
\* `(kanji{2,4})<honorific>$` by `\1<honorific>`, the same text, so re.sub
\* leaves the name as it is; the five width rules replace one character.
name_normalization_rules ==
    << <<"(fwsp)", " ">>, <<"(fw()", "(">>, <<"(fw))", ")">>,
       <<"(fw[)", "[">>, <<"(fw])", "]">> >>

RECURSIVE ApplyNameRules(_, _)
ApplyNameRules(s, i) ==
    IF i > Len(name_normalization_rules) THEN s
    ELSE ApplyNameRules(Replace(s, <<name_normalization_rules[i][1]>>,
                                <<name_normalization_rules[i][2]>>), i + 1)

Digits == {"0", "1"}
Letters == {"a", "h", "t", "p", "s"}
\* [a-zA-Z0-9._%+-] and [a-zA-Z0-9.-]
EmailLocalChars == Letters \cup Digits \cup {".", "_", "%", "+", "-"}
EmailDomainChars == Letters \cup Digits \cup {".", "-"}

AllIn(s, S) == \A i \in 1..Len(s) : s[i] \in S

\* ^[a-zA-Z0-9._%+-]+@[a-zA-Z0-9.-]+\.[a-zA-Z]{2,}$
IsEmail(s) ==
    \E at \in 1..Len(s), dot \in 1..Len(s) :
        /\ s[at] = "@" /\ s[dot] = "." /\ at + 1 < dot
        /\ at > 1 /\ AllIn(SubSeq(s, 1, at - 1), EmailLocalChars)
        /\ AllIn(SubSeq(s, at + 1, dot - 1), EmailDomainChars)
        /\ Len(s) - dot >= 2 /\ AllIn(SubSeq(s, dot + 1, Len(s)), Letters)

StartsWith(s, prefix) ==
    Len(s) >= Len(prefix) /\ SubSeq(s, 1, Len(prefix)) = prefix

\* ^https?://
IsUrl(s) ==
    \/ StartsWith(s, <<"h", "t", "t", "p", ":", "/", "/">>)
    \/ StartsWith(s, <<"h", "t", "t", "p", "s", ":", "/", "/">>)

\* DataNormalizer._is_valid_person_name
IsValidPersonName(name) ==
    /\ Len(name) >= 2
    /\ ~AllIn(name, Digits)
    /\ ~IsEmail(name)
    /\ ~IsUrl(name)
    /\ ~AllIn(name, Whitespace)

\* the body of the loop of _normalize_person_names for one name: the names it
\* appends (none or one)
NormalizeOneName(name) ==
    IF name = <<>> THEN <<>>
    ELSE LET normalized_name == Strip(ApplyNameRules(Strip(name), 1))
         IN IF normalized_name # <<>> /\ IsValidPersonName(normalized_name)
            THEN <<normalized_name>> ELSE <<>>

\* _normalize_person_names
RECURSIVE NormalizePersonNames(_)
NormalizePersonNames(person_names) ==
    IF person_names = <<>> THEN <<>>
    ELSE NormalizeOneName(Head(person_names)) \o NormalizePersonNames(Tail(person_names))

\* the elements of a sequence
Range(q) == {q[i] : i \in 1..Len(q)}

\* the orders list(set(names)) can return: every arrangement of the distinct names
Orderings(S) ==
    {q \in [1..Cardinality(S) -> S] : Range(q) = S}

-----------------------------------------------------------------------------
(* AIExtractor and HybridExtractor.  Confidences are exact thousandths       *)
(* (0.8 is 800); the binary rounding of the float operations is not modelled. *)

\* ExtractedData(company_name, person_names, confidence)
ExtractedData(c, n, conf) == [company_name |-> c, person_names |-> n, confidence |-> conf]

\* ExtractedData(confidence=0.0)
EmptyExtraction == ExtractedData(NoneName, <<>>, 0)

\* _parse_llm_response if ExtractedData took any confidence
ParseLlmResponseUnvalidated(response) ==
    IF response.kind # "object" THEN EmptyExtraction
    ELSE ExtractedData(response.company_name, response.person_names, response.confidence)

\* _parse_llm_response.  A response is text that json.loads rejects
\* ("garbage"), JSON that is no object ("not_object": data.get raises), or a
\* JSON object with the three fields; ExtractedData rejects a confidence
\* outside [0, 1] and the generic except returns the empty candidate.
ParseLlmResponse(response) ==
    IF response.kind # "object" THEN EmptyExtraction
    ELSE IF response.confidence < 0 \/ response.confidence > 1000 THEN EmptyExtraction
    ELSE ExtractedData(response.company_name, response.person_names, response.confidence)

\* AIExtractor.extract_from_event for a backend [client, raises, response]
AIExtractFromEvent(backend) ==
    IF ~backend.client THEN EmptyExtraction
    ELSE IF backend.raises THEN EmptyExtraction
    ELSE ParseLlmResponse(backend.response)

\* a bug RuleTrusted could have: `>` for `>=`
RuleTrustedStrict(rule_confidence, threshold) == rule_confidence > threshold

\* the comparison `rule_result.confidence >= self.confidence_threshold`
RuleTrusted(rule_confidence, threshold) == rule_confidence >= threshold

\* a bug RulePreferred could have: a tie goes to the model-backed side
RulePreferredStrict(rule_confidence, ai_confidence) == rule_confidence > ai_confidence

\* the comparison `rule_confidence >= ai_confidence` of both merges
RulePreferred(rule_confidence, ai_confidence) == rule_confidence >= ai_confidence

\* _merge_company_names
MergeCompanyNames(rule_company, ai_company, rule_confidence, ai_confidence) ==
    IF ~TruthyName(rule_company) /\ ~TruthyName(ai_company) THEN NoneName
    ELSE IF ~TruthyName(rule_company) THEN ai_company
    ELSE IF ~TruthyName(ai_company) THEN rule_company
    ELSE IF RulePreferred(rule_confidence, ai_confidence) THEN rule_company
    ELSE ai_company

\* `final = list(base); for x in other: if x not in base: final.append(x)`
RECURSIVE Complement(_, _)
Complement(other, base) ==
    IF other = <<>> THEN <<>>
    ELSE (IF Head(other) \in Range(base) THEN <<>> ELSE <<Head(other)>>)
         \o Complement(Tail(other), base)

\* _merge_person_names
MergePersonNames(rule_names, ai_names, rule_confidence, ai_confidence) ==
    IF rule_names = <<>> /\ ai_names = <<>> THEN <<>>
    ELSE IF rule_names = <<>> THEN ai_names
    ELSE IF ai_names = <<>> THEN rule_names
    ELSE IF RulePreferred(rule_confidence, ai_confidence)
         THEN rule_names \o Complement(ai_names, rule_names)
         ELSE ai_names \o Complement(rule_names, ai_names)

Min(a, b) == IF a <= b THEN a ELSE b
Max(a, b) == IF a >= b THEN a ELSE b

\* a bug RichnessBonus could have: the full bonus with either of the two
RichnessBonusEither(company_name, person_names) ==
    IF TruthyName(company_name) \/ person_names # <<>> THEN 100 ELSE 0

\* the bonus of _calculate_merged_confidence: +0.1 with a company and a name,
\* +0.05 with one of them
RichnessBonus(company_name, person_names) ==
    IF TruthyName(company_name) /\ person_names # <<>> THEN 100
    ELSE IF TruthyName(company_name) \/ person_names # <<>> THEN 50
    ELSE 0

\* a bug _calculate_merged_confidence could have: the two weights exchanged
CalculateMergedConfidenceSwapped(rule_confidence, ai_confidence, company_name, person_names) ==
    LET base_confidence == (rule_confidence * 4 + ai_confidence * 6) \div 10
                           + RichnessBonus(company_name, person_names)
    IN Min(Max(base_confidence, 0), 1000)

\* _calculate_merged_confidence
CalculateMergedConfidence(rule_confidence, ai_confidence, company_name, person_names) ==
    LET base_confidence == (rule_confidence * 6 + ai_confidence * 4) \div 10
                           + RichnessBonus(company_name, person_names)
    IN Min(Max(base_confidence, 0), 1000)

\* _merge_and_validate_results
MergeAndValidateResults(rule_result, ai_result) ==
    LET company_name == MergeCompanyNames(rule_result.company_name, ai_result.company_name,
                                          rule_result.confidence, ai_result.confidence)
        person_names == MergePersonNames(rule_result.person_names, ai_result.person_names,
                                         rule_result.confidence, ai_result.confidence)
        confidence == CalculateMergedConfidence(rule_result.confidence, ai_result.confidence,
                                                company_name, person_names)
    IN ExtractedData(company_name, person_names, confidence)

\* HybridExtractor.extract_from_event: the result and the number of times
\* ai_extractor.extract_from_event was called
HybridExtractFromEvent(rule_result, backend, threshold) ==
    IF RuleTrusted(rule_result.confidence, threshold)
    THEN [result |-> rule_result, ai_calls |-> 0, ai_result |-> EmptyExtraction]
    ELSE LET ai_result == AIExtractFromEvent(backend)
         IN [result |-> MergeAndValidateResults(rule_result, ai_result),
             ai_calls |-> 1, ai_result |-> ai_result]

\* set_confidence_threshold: max(0.0, min(1.0, threshold))
ClampThreshold(threshold) == Max(0, Min(1000, threshold))

\* person names of the samples
Name1 == <<"k1", "k2">>
Name2 == <<"k3", "k4">>
Name3 == <<"k5", "k6", "sama">>

\* results the Pattern Extractor can hand to the arbitrator
RuleResults ==
    {ExtractedData(c, n, conf) :
        c \in {NoneName, <<"A">>},
        n \in {<<>>, <<Name1, Name2>>},
        conf \in {0, 500, 800, 900}}

\* what the language-model backend can do for one call
Responses ==
    {[kind |-> "garbage", company_name |-> NoneName, person_names |-> <<>>, confidence |-> 0],
     [kind |-> "not_object", company_name |-> NoneName, person_names |-> <<>>, confidence |-> 0]}
    \cup {[kind |-> "object", company_name |-> c, person_names |-> n, confidence |-> conf] :
            c \in {NoneName, <<"B">>},
            n \in {<<>>, <<Name1, Name3>>, <<Name3, Name3>>},
            conf \in {-100, 0, 500, 1000, 1500}}

Backends ==
    {[client |-> FALSE, raises |-> FALSE, response |-> r] :
        r \in {x \in Responses : x.kind = "garbage"}}
    \cup {[client |-> TRUE, raises |-> TRUE, response |-> r] :
        r \in {x \in Responses : x.kind = "garbage"}}
    \cup {[client |-> TRUE, raises |-> FALSE, response |-> r] : r \in Responses}

\* thresholds callers pass to set_confidence_threshold
ThresholdInputs == {-100, 0, 500, 800, 1000, 1200}

\* the extractor as constructed: confidence_threshold = 0.8, nothing extracted
HyInit ==
    [confidence_threshold |-> 800, existing_companies |-> {},
     pc |-> "new", threshold_used |-> 800,
     rule_result |-> EmptyExtraction,
     backend |-> [client |-> FALSE, raises |-> FALSE,
                  response |-> [kind |-> "garbage", company_name |-> NoneName,
                                person_names |-> <<>>, confidence |-> 0]],
     ai_result |-> EmptyExtraction, result |-> EmptyExtraction, ai_calls |-> 0]

\* the normalizer before any call
NmIdle == [kind |-> "none", input |-> <<>>, outs |-> <<>>]

\* no call of RuleBasedExtractor.extract_from_event yet
RuIdle ==
    [pc |-> "new", existing_companies |-> {}, existing_at_call |-> {},
     event_data |-> [title |-> NoneName, description |-> NoneName,
                     location |-> NoneName, attendees |-> <<>>],
     result |-> [company_name |-> NoneName, person_names |-> {}, confidence |-> 0]]

\* no call of DataNormalizer.validate_booking_record yet
VrIdle ==
    [pc |-> "new", origin |-> "none", event |-> <<>>, record |-> <<>>,
     result |-> [is_valid |-> TRUE, errors |-> {}, warnings |-> {}]]

\* no call of CalendarSyncService.cleanup_old_records yet
ClIdle ==
    [pc |-> "new", cutoff_date |-> [date |-> 0, sec |-> 0, frac |-> 0, aware |-> FALSE],
     result |-> [removed |-> 0, total_checked |-> 0, error |-> FALSE]]

CallInit == ru = RuIdle /\ vr = VrIdle /\ cl = ClIdle

call_vars == <<ru, vr, cl>>

-----------------------------------------------------------------------------
(* BookingRecord values handed to the sheets client *)

\* identity keys; "" is a record without one
EventIds == {"e1", "e2"}

\* A BookingRecord with identity key id; every other field depends on the
\* variant v, so that two variants differ in each of the 14 columns but the key.
BookingRecord(id, v) ==
    [event_id |-> id,
     title |-> IF v = 1 THEN <<"[B]", "t1">> ELSE <<"[B]", "t2">>,
     company_name |-> IF v = 1 THEN NoneName ELSE <<"A">>,
     person_names |-> IF v = 1 THEN JsonDumps(<<>>) ELSE JsonDumps(<< <<"k1", "k2">> >>),
     start_datetime |-> DateTime(v, 0, 0, TRUE),
     end_datetime |-> DateTime(v, 3600, 0, TRUE),
     timezone |-> IF v = 1 THEN "Asia/Tokyo" ELSE "UTC",
     attendees |-> IF v = 1 THEN JsonDumps(<<>>) ELSE JsonDumps(<< <<"k1", "k2">> >>),
     location |-> IF v = 1 THEN NoneStr ELSE "Tokyo",
     source_calendar |-> IF v = 1 THEN "primary" ELSE "work",
     extracted_confidence |-> IF v = 1 THEN NoneNum ELSE 900,
     status |-> IF v = 1 THEN "active" ELSE "cancelled",
     updated_at |-> DateTime(v, 0, 1, FALSE),
     run_id |-> IF v = 1 THEN NoneStr ELSE "run-2"]

\* records callers hand to upsert_booking_records directly
DirectRecords ==
    {BookingRecord("e1", 1), BookingRecord("e1", 2), BookingRecord("e2", 1),
     BookingRecord("", 1)}

\* sequences over S of length 0..n
RECURSIVE SeqsUpTo(_, _)
SeqsUpTo(S, n) ==
    IF n = 0 THEN {<<>>}
    ELSE LET shorter == SeqsUpTo(S, n - 1)
         IN shorter \cup {Append(q, x) : q \in shorter, x \in S}

Batches == SeqsUpTo(DirectRecords, MaxBatch)

-----------------------------------------------------------------------------
(* GoogleSheetsClient, full-column sheet *)

\* a row of 14 empty cells
BlankRow ==
    <<"", <<>>, <<>>, JsonDumps(<<>>), <<0, 0>>, <<0, 0>>, "", JsonDumps(<<>>), "", "",
      EmptyNum, "", <<0, 0>>, "">>

\* _record_to_values: the 14 cells A..N of a record
RecordToValues(record) ==
    <<record.event_id,
      record.title,
      OrEmptyName(record.company_name),
      record.person_names,
      StrfDateTime(record.start_datetime),
      StrfDateTime(record.end_datetime),
      record.timezone,
      record.attendees,
      OrEmpty(record.location),
      record.source_calendar,
      OrEmptyNum(record.extracted_confidence),
      record.status,
      StrfDateTime(record.updated_at),
      OrEmpty(record.run_id)>>

\* the index a failed read leaves: {}
EmptyIndex == [k \in {} |-> 0]

\* a bug _get_existing_records could have: the first data row taken for a
\* second header row and left out of the index
GetExistingRecordsFromRow3(ws) ==
    LET keys == {ws[i][1] : i \in 2..Len(ws)} \ {""}
        last(k) == CHOOSE i \in 2..Len(ws) :
                       /\ ws[i][1] = k
                       /\ \A j \in 2..Len(ws) : ws[j][1] = k => j <= i
    IN [k \in keys |-> last(k) + 1]

\* _get_existing_records on a successful read: event_id -> row number (data
\* rows start at row 2); rows with an empty first cell are skipped and a later
\* row with the same key overwrites the earlier entry.
GetExistingRecords(ws) ==
    LET keys == {ws[i][1] : i \in 1..Len(ws)} \ {""}
        last(k) == CHOOSE i \in 1..Len(ws) :
                       /\ ws[i][1] = k
                       /\ \A j \in 1..Len(ws) : ws[j][1] = k => j <= i
    IN [k \in keys |-> last(k) + 1]

\* worksheet.update('A{n}:N{n}', [values]) on the data rows
UpdateRow(ws, row_number, values) ==
    LET i == row_number - 1
        padded == ws \o [j \in 1..(i - Len(ws)) |-> BlankRow]
    IN [padded EXCEPT ![i] = values]

\* worksheet.append_row(values)
AppendRow(ws, values) == Append(ws, values)

\* _upsert_single_record if an update went to the last row of the sheet
\* instead of the row the index names
UpsertSingleRecordLastRow(ws, record, existing_records, writeOk) ==
    LET record_values == RecordToValues(record)
    IN IF ~writeOk
       THEN [ws |-> ws, ok |-> FALSE, kind |-> "none"]
       ELSE IF record.event_id \in DOMAIN existing_records
            THEN [ws |-> UpdateRow(ws, Len(ws) + 1, record_values),
                  ok |-> TRUE, kind |-> "update"]
            ELSE [ws |-> AppendRow(ws, record_values), ok |-> TRUE, kind |-> "append"]

\* _upsert_single_record: the sheet afterwards and the returned flag.  A
\* rejected write raises inside the try block: nothing is written, False.
UpsertSingleRecord(ws, record, existing_records, writeOk) ==
    LET record_values == RecordToValues(record)
    IN IF ~writeOk
       THEN [ws |-> ws, ok |-> FALSE, kind |-> "none"]
       ELSE IF record.event_id \in DOMAIN existing_records
            THEN [ws |-> UpdateRow(ws, existing_records[record.event_id], record_values),
                  ok |-> TRUE, kind |-> "update"]
            ELSE [ws |-> AppendRow(ws, record_values), ok |-> TRUE, kind |-> "append"]


-----------------------------------------------------------------------------
(* States of the parts a specification leaves alone *)

\* passes that can run against the full-column sheet
Passes == {1, 2}

NoSyncResult ==
    [total_events |-> 0, matched_b_events |-> 0, upserted |-> 0, skipped |-> 0,
     errors |-> 0, error_details |-> <<>>, returned |-> FALSE]

\* history of a pass: its batch, the sheet at its start, the batch of the
\* pass before it when that one was a direct pass of one record upserted
\* without error (else <<>>), and, when the pass before it was interrupted,
\* that pass's batch and the sheet it started from (else <<>>)
NoAudit == [batch |-> <<>>, start_ws |-> <<>>, prev |-> <<>>, cut |-> <<>>]

SheetInit ==
    /\ worksheet = <<>>
    /\ pc = [p \in Passes |-> "idle"]
    /\ existing = [p \in Passes |-> EmptyIndex]
    /\ pending = [p \in Passes |-> <<>>]
    /\ counts = [p \in Passes |-> [upserted |-> 0, errors |-> 0]]
    /\ caller = [p \in Passes |-> "direct"]
    /\ sync_result = [p \in Passes |-> NoSyncResult]
    /\ audit = [p \in Passes |-> NoAudit]
    /\ clock = 0

sheet_vars == <<worksheet, pc, existing, pending, counts, caller, sync_result, audit, clock>>

\* Bookings_Simple does not exist
NoSheet == << << <<"<no sheet>">> >> >>

\* no operation on Bookings_Simple yet.  `kind` is the branch an upsert took
\* ("primary", "secondary", "insert", "failed") and `row` the row it wrote.
NoSimpleCall == [op |-> "none", record |-> BookingRecord("", 1), kind |-> "none", row |-> 0]

SimpleInit == simple_ws = NoSheet /\ simple_last = NoSimpleCall

simple_vars == <<simple_ws, simple_last>>

-----------------------------------------------------------------------------
(* HybridExtractor as a state machine *)

\* set_confidence_threshold(threshold)
SetConfidenceThreshold(threshold) ==
    /\ hy' = [hy EXCEPT !.confidence_threshold = ClampThreshold(threshold)]
    /\ UNCHANGED <<sheet_vars, simple_vars, nm, call_vars>>

\* extract_from_event(event): the Pattern Extractor returns rule_result for
\* the event and the language-model backend behaves as `backend`
HybridExtract(rule_result, backend) ==
    /\ LET r == HybridExtractFromEvent(rule_result, backend, hy.confidence_threshold)
       IN hy' = [hy EXCEPT !.pc = "done", !.rule_result = rule_result,
                           !.threshold_used = hy.confidence_threshold,
                           !.backend = backend, !.ai_result = r.ai_result,
                           !.result = r.result, !.ai_calls = r.ai_calls]
    /\ UNCHANGED <<sheet_vars, simple_vars, nm, call_vars>>

InitHybrid == SheetInit /\ SimpleInit /\ hy = HyInit /\ nm = NmIdle /\ CallInit

NextHybrid ==
    \/ \E t \in ThresholdInputs : SetConfidenceThreshold(t)
    \/ \E r \in RuleResults, b \in Backends : HybridExtract(r, b)

SpecHybrid == InitHybrid /\ [][NextHybrid]_vars

\* the call ran the fallback path
OnFallbackPath == hy.pc = "done" /\ hy.ai_calls = 1

\* the backend answered with text that is not JSON
BackendUnparseable ==
    hy.backend.client /\ ~hy.backend.raises /\ hy.backend.response.kind = "garbage"

-----------------------------------------------------------------------------
(* DataNormalizer as a state machine: a name is normalized, then the result *)
(* is normalized again                                                      *)

CompanyPieces ==
    {<<"A">>, <<" ">>, <<"(fwsp)">>, <<".">>, <<"I", "n", "c">>, <<"L", "t", "d">>,
     <<"L", "L", "C">>, <<"C", "o", "r", "p">>, <<"C", "o">>, <<"(KK)">>}

RECURSIVE Concats(_, _)
Concats(S, n) ==
    IF n = 0 THEN {<<>>}
    ELSE LET shorter == Concats(S, n - 1)
         IN shorter \cup {q \o x : q \in shorter, x \in S}

CompanyInputs == Concats(CompanyPieces, MaxPieces) \cup {NoneName}

NameSamples ==
    {<<>>, Name1, Name3, <<"k1">>, <<"(fwsp)", "k1", "k2", " ">>,
     <<"k1", "(fwsp)", "k2">>, <<"k1", "(fw()", "k2", "(fw))">>, <<"1", "0">>,
     <<"a", "@", "a", ".", "a", "a">>, <<"h", "t", "t", "p", ":", "/", "/", "a">>}

PersonInputs == SeqsUpTo(NameSamples, MaxNames)

\* _normalize_company_name applied to the input, then to its own result
NormalizeCompany ==
    /\ nm.kind = "company" /\ Len(nm.outs) < 2
    /\ LET arg == IF nm.outs = <<>> THEN nm.input ELSE nm.outs[Len(nm.outs)]
       IN nm' = [nm EXCEPT !.outs = Append(@, NormalizeCompanyName(arg))]
    /\ UNCHANGED <<sheet_vars, simple_vars, hy, call_vars>>

\* _normalize_person_names applied to the input, then to its own result
NormalizePersons ==
    /\ nm.kind = "persons" /\ Len(nm.outs) < 2
    /\ LET arg == IF nm.outs = <<>> THEN nm.input ELSE nm.outs[Len(nm.outs)]
       IN nm' = [nm EXCEPT !.outs = Append(@, NormalizePersonNames(arg))]
    /\ UNCHANGED <<sheet_vars, simple_vars, hy, call_vars>>

InitNorm ==
    /\ SheetInit /\ SimpleInit /\ hy = HyInit /\ CallInit
    /\ \/ \E c \in CompanyInputs : nm = [kind |-> "company", input |-> c, outs |-> <<>>]
       \/ \E p \in PersonInputs : nm = [kind |-> "persons", input |-> p, outs |-> <<>>]

NextNorm == NormalizeCompany \/ NormalizePersons

SpecNorm == InitNorm /\ [][NextNorm]_vars

-----------------------------------------------------------------------------
(* CalendarSyncService: from the fetched events to the records of a pass *)

\* datetime comparison `a < b` of two datetimes of the same awareness
DtLess(a, b) ==
    \/ a.date < b.date
    \/ a.date = b.date /\ a.sec < b.sec
    \/ a.date = b.date /\ a.sec = b.sec /\ a.frac < b.frac

\* BookingRecord.ensure_timezone: an aware datetime is the same instant in
\* Asia/Tokyo (aware datetimes are written in Tokyo time here); a naive one is
\* taken as UTC and moved to Tokyo, nine hours ahead
EnsureTimezone(v) ==
    IF v.aware THEN v
    ELSE LET s == v.sec + 32400
         IN [date |-> v.date + (s \div 86400), sec |-> s % 86400,
             frac |-> v.frac, aware |-> TRUE]

\* datetime.now(): naive, on the clock's date
Now == DateTime(clock, 0, 1, FALSE)

\* _is_b_event: the title is non-empty and matches ^[　\s]*[B]; "[B]"
\* stands for the three characters of the marker
IsBEvent(title) == title # <<>> /\ StartsWith(LStrip(title), <<"[B]">>)

\* _filter_b_events
FilterBEvents(events) == SelectSeq(events, LAMBDA e : IsBEvent(e.title))

\* validate_booking_record.  Comparing an aware with a naive datetime raises
\* TypeError, which the outer except turns into is_valid = False; the checks
\* after the raising comparison are then not run.
ValidateBookingRecord(record, now) ==
    LET required == (IF record.event_id = "" THEN {"event_id"} ELSE {})
                    \cup (IF record.title = <<>> THEN {"title"} ELSE {})
        raises_order == record.start_datetime.aware # record.end_datetime.aware
        order == IF ~raises_order /\ ~DtLess(record.start_datetime, record.end_datetime)
                 THEN {"start>=end"} ELSE {}
        raises_past == ~raises_order /\ record.start_datetime.aware # now.aware
        raised == raises_order \/ raises_past
        past == IF ~raised /\ DtLess(record.start_datetime, now) THEN {"past"} ELSE {}
        low == IF ~raised /\ record.extracted_confidence # NoneNum
                  /\ record.extracted_confidence < 500
               THEN {"low_confidence"} ELSE {}
        status == IF ~raised /\ record.status \notin {"active", "removed", "cancelled"}
                  THEN {"status"} ELSE {}
        json == (IF ~raised /\ ~record.person_names.wf THEN {"person_names"} ELSE {})
                \cup (IF ~raised /\ ~record.attendees.wf THEN {"attendees"} ELSE {})
        errors == required \cup order \cup status \cup json
                  \cup (IF raised THEN {"exception"} ELSE {})
    IN [is_valid |-> errors = {}, errors |-> errors, warnings |-> past \cup low]

\* normalize_extracted_data: the results it can return; list(set(names)) may
\* come out in any order
NormalizeExtractedData(extracted_data) ==
    {ExtractedData(NormalizeCompanyName(extracted_data.company_name), q,
                   extracted_data.confidence) :
        q \in Orderings(Range(NormalizePersonNames(extracted_data.person_names)))}

\* A calendar event with id `id`.  Kind 1 is a [B] event the Pattern Extractor
\* is sure about, kind 2 a [B] event of zero length that needs the fallback,
\* kind 3 an all-day event without the marker.  rule_result is what the
\* Pattern Extractor returns for the event's text.
CalendarEvent(id, k) ==
    [event_id |-> id,
     title |-> CASE k = 1 -> <<"[B]", "t1">>
                 [] k = 2 -> <<"(fwsp)", "[B]", "t2">>
                 [] OTHER -> <<"t3">>,
     start |-> CASE k = 1 -> DateTime(1, 0, 0, TRUE)
                 [] k = 2 -> DateTime(2, 0, 0, TRUE)
                 [] OTHER -> DateTime(1, 0, 0, FALSE),
     end |-> CASE k = 1 -> DateTime(1, 3600, 0, TRUE)
               [] k = 2 -> DateTime(2, 0, 0, TRUE)
               [] OTHER -> DateTime(2, 0, 0, FALSE),
     timezone |-> "Asia/Tokyo",
     attendees |-> IF k = 1 THEN <<Name1>> ELSE <<>>,
     location |-> IF k = 1 THEN "Tokyo" ELSE NoneStr,
     source_calendar |-> "primary",
     rule_result |-> IF k = 1 THEN ExtractedData(<<"A">>, <<Name2, Name1>>, 900)
                     ELSE ExtractedData(NoneName, <<Name1>>, 400)]

Events ==
    {CalendarEvent("e1", 1), CalendarEvent("e1", 2), CalendarEvent("e1", 3),
     CalendarEvent("e2", 1), CalendarEvent("e2", 3)}

\* what get_events can return: singleEvents=True gives every event its own
\* id, orderBy='startTime' sorts by start
EventLists ==
    {q \in SeqsUpTo(Events, MaxBatch) :
        \A i, j \in 1..Len(q) :
            i < j => /\ q[i].event_id # q[j].event_id
                     /\ ~DtLess(q[j].start, q[i].start)}

\* the language-model backend during a sync: not configured, or answering
SyncBackends ==
    {[client |-> FALSE, raises |-> FALSE,
      response |-> [kind |-> "garbage", company_name |-> NoneName,
                    person_names |-> <<>>, confidence |-> 0]],
     [client |-> TRUE, raises |-> FALSE,
      response |-> [kind |-> "object", company_name |-> <<"A">>,
                    person_names |-> <<Name1, Name3>>, confidence |-> 900]]}

\* run ids callers pass to sync_calendar_to_sheets
RunIds == {"run-1", "run-2"}

\* thresholds the extractor can hold
Thresholds == {ClampThreshold(t) : t \in ThresholdInputs}

\* steps 1 and 2 of _process_single_event, tabulated over the events, backends
\* and thresholds of the model: hybrid extraction, then normalization
NormalizedFor ==
    [event \in Events, backend \in SyncBackends, threshold \in Thresholds |->
        NormalizeExtractedData(
            HybridExtractFromEvent(event.rule_result, backend, threshold).result)]

\* _process_single_event: the records it can return for the event.  The
\* validation result is only logged; the record is returned whatever it says.
ProcessSingleEvent(event, run_id, now, backend, threshold) ==
    {LET booking_record ==
                [event_id |-> event.event_id,
                 title |-> event.title,
                 company_name |-> normalized_data.company_name,
                 person_names |-> JsonDumps(normalized_data.person_names),
                 start_datetime |-> EnsureTimezone(event.start),
                 end_datetime |-> EnsureTimezone(event.end),
                 timezone |-> event.timezone,
                 attendees |-> JsonDumps(event.attendees),
                 location |-> event.location,
                 source_calendar |-> event.source_calendar,
                 extracted_confidence |-> normalized_data.confidence,
                 status |-> "active",
                 updated_at |-> now,
                 run_id |-> run_id]
            validation_result == ValidateBookingRecord(booking_record, now)
        IN booking_record :
        normalized_data \in NormalizedFor[event, backend, threshold]}

\* the loop over b_events of sync_calendar_to_sheets: the lists booking_records
\* can end up as.  For an event in `raising` a step inside the try block of
\* _process_single_event raises; its except branch logs and returns None, and
\* the loop's `if record:` leaves the event out.
RECURSIVE ProcessEvents(_, _, _, _, _, _)
ProcessEvents(b_events, run_id, now, backend, threshold, raising) ==
    IF b_events = <<>> THEN {<<>>}
    ELSE IF Head(b_events).event_id \in raising
    THEN ProcessEvents(Tail(b_events), run_id, now, backend, threshold, raising)
    ELSE {<<r>> \o rest :
            r \in ProcessSingleEvent(Head(b_events), run_id, now, backend, threshold),
            rest \in ProcessEvents(Tail(b_events), run_id, now, backend, threshold,
                                   raising)}

-----------------------------------------------------------------------------
(* The full-column sheet: reconciliation passes, directly and from a sync *)

\* the index a pass starts with
IndexRead(ws, readOk) == IF readOk THEN GetExistingRecords(ws) ELSE EmptyIndex

\* the sheet has room for the rows a pass over `batch` can append
RoomFor(batch, index) ==
    Len(worksheet)
      + Cardinality({i \in 1..Len(batch) : batch[i].event_id \notin DOMAIN index})
      <= MaxRows

\* upsert_booking_records(batch) up to the loop: an empty batch returns at
\* once; else the index is read (a failed read leaves {}) and the loop starts
UpsertBegin(p, batch, readOk) ==
    /\ pc[p] = "idle"
    /\ RoomFor(batch, IndexRead(worksheet, readOk))
    /\ caller' = [caller EXCEPT ![p] = "direct"]
    /\ sync_result' = [sync_result EXCEPT ![p] = NoSyncResult]
    /\ counts' = [counts EXCEPT ![p] = [upserted |-> 0, errors |-> 0]]
    /\ IF batch = <<>>
       THEN /\ audit' = [audit EXCEPT ![p] = NoAudit]
            /\ UNCHANGED <<pc, existing, pending>>
       ELSE /\ pc' = [pc EXCEPT ![p] = "upserting"]
            /\ existing' = [existing EXCEPT
                               ![p] = IndexRead(worksheet, readOk)]
            /\ pending' = [pending EXCEPT ![p] = batch]
            /\ audit' = [audit EXCEPT ![p] = [batch |-> batch, start_ws |-> worksheet,
                                              prev |-> audit[p].prev,
                                              cut |-> audit[p].cut]]
    /\ UNCHANGED <<worksheet, clock, simple_vars, hy, nm, call_vars>>

\* the loop of upsert_booking_records if a rejected write ended it: the
\* records after the rejected one are dropped
UpsertOneAbortsBatch(p, writeOk) ==
    /\ pc[p] = "upserting" /\ pending[p] # <<>>
    /\ LET r == UpsertSingleRecord(worksheet, Head(pending[p]), existing[p], writeOk)
       IN /\ Len(r.ws) <= MaxRows
          /\ worksheet' = r.ws
          /\ counts' = [counts EXCEPT
                           ![p] = IF r.ok THEN [@ EXCEPT !.upserted = @ + 1]
                                  ELSE [@ EXCEPT !.errors = @ + 1]]
          /\ pending' = [pending EXCEPT ![p] = IF r.ok THEN Tail(@) ELSE <<>>]
    /\ UNCHANGED <<pc, existing, caller, sync_result, audit, clock, simple_vars, hy, nm, call_vars>>

\* one turn of the loop of upsert_booking_records: _upsert_single_record on
\* the next record, against the index read at the start of the pass
UpsertOne(p, writeOk) ==
    /\ pc[p] = "upserting" /\ pending[p] # <<>>
    /\ LET r == UpsertSingleRecord(worksheet, Head(pending[p]), existing[p], writeOk)
       IN /\ Len(r.ws) <= MaxRows
          /\ worksheet' = r.ws
          /\ counts' = [counts EXCEPT
                           ![p] = IF r.ok THEN [@ EXCEPT !.upserted = @ + 1]
                                  ELSE [@ EXCEPT !.errors = @ + 1]]
    /\ pending' = [pending EXCEPT ![p] = Tail(@)]
    /\ UNCHANGED <<pc, existing, caller, sync_result, audit, clock, simple_vars, hy, nm, call_vars>>

\* upsert_booking_records returns its counts to a direct caller
UpsertEnd(p) ==
    /\ pc[p] = "upserting" /\ pending[p] = <<>> /\ caller[p] = "direct"
    /\ pc' = [pc EXCEPT ![p] = "idle"]
    /\ existing' = [existing EXCEPT ![p] = EmptyIndex]
    /\ audit' = [audit EXCEPT
                    ![p] = [NoAudit EXCEPT
                               !.prev = IF Len(audit[p].batch) = 1 /\ counts[p].upserted = 1
                                        THEN audit[p].batch ELSE <<>>]]
    /\ UNCHANGED <<worksheet, pending, counts, caller, sync_result, clock, simple_vars, hy, nm, call_vars>>

\* sync_calendar_to_sheets if the outer except returned the summary as it
\* stands, without recording the error
SyncFetchFailsUnrecorded(p) ==
    /\ pc[p] = "idle"
    /\ sync_result' = [sync_result EXCEPT ![p] = [NoSyncResult EXCEPT !.returned = TRUE]]
    /\ audit' = [audit EXCEPT ![p] = NoAudit]
    /\ UNCHANGED <<worksheet, pc, existing, pending, counts, caller, clock, simple_vars, hy, nm, call_vars>>

\* sync_calendar_to_sheets when the fetch raises: the outer except records
\* the error and returns
SyncFetchFails(p) ==
    /\ pc[p] = "idle"
    /\ sync_result' = [sync_result EXCEPT
                          ![p] = [NoSyncResult EXCEPT !.errors = 1,
                                                      !.error_details = <<"sync">>,
                                                      !.returned = TRUE]]
    /\ audit' = [audit EXCEPT ![p] = NoAudit]
    /\ UNCHANGED <<worksheet, pc, existing, pending, counts, caller, clock, simple_vars, hy, nm, call_vars>>

\* sync_calendar_to_sheets from the fetch to the start of the upsert loop:
\* fetch, filter, process every [B] event, and with at least one record enter
\* upsert_booking_records (index read); with none the upsert is skipped.
\* _process_single_event never raises, so the except branch of the loop,
\* which would count an error, is not taken.
SyncStart(p, events, run_id, backend, readOk, raising) ==
    /\ pc[p] = "idle"
    /\ LET b_events == FilterBEvents(events)
       IN \E booking_records \in ProcessEvents(b_events, run_id, Now, backend,
                                               hy.confidence_threshold, raising) :
            /\ RoomFor(booking_records, IndexRead(worksheet, readOk))
            /\ sync_result' = [sync_result EXCEPT
                                  ![p] = [NoSyncResult EXCEPT
                                             !.total_events = Len(events),
                                             !.matched_b_events = Len(b_events)]]
            /\ pending' = [pending EXCEPT ![p] = booking_records]
            /\ audit' = [audit EXCEPT ![p] = [batch |-> booking_records,
                                              start_ws |-> worksheet, prev |-> <<>>,
                                              cut |-> <<>>]]
            /\ IF booking_records = <<>>
               THEN /\ pc' = [pc EXCEPT ![p] = "finishing"]
                    /\ UNCHANGED existing
               ELSE /\ pc' = [pc EXCEPT ![p] = "upserting"]
                    /\ existing' = [existing EXCEPT
                                       ![p] = IndexRead(worksheet, readOk)]
    /\ caller' = [caller EXCEPT ![p] = "sync"]
    /\ counts' = [counts EXCEPT ![p] = [upserted |-> 0, errors |-> 0]]
    /\ UNCHANGED <<worksheet, clock, simple_vars, hy, nm, call_vars>>

\* the company_name cells _update_company_dictionary collects
CompanyNamesOf(ws) == {ws[i][3] : i \in 1..Len(ws)} \ {<<>>}

\* sync_calendar_to_sheets after the upsert: the counts are taken over, the
\* company dictionary is refreshed (a failed read is only logged), skipped is
\* computed and the summary returned
SyncFinish(p, dictOk) ==
    /\ caller[p] = "sync"
    /\ \/ pc[p] = "finishing"
       \/ pc[p] = "upserting" /\ pending[p] = <<>>
    /\ sync_result' = [sync_result EXCEPT
                          ![p] = [@ EXCEPT !.upserted = counts[p].upserted,
                                           !.errors = @ + counts[p].errors,
                                           !.skipped = sync_result[p].total_events
                                                       - sync_result[p].matched_b_events,
                                           !.returned = TRUE]]
    /\ hy' = IF dictOk THEN [hy EXCEPT !.existing_companies = CompanyNamesOf(worksheet)]
             ELSE hy
    /\ pc' = [pc EXCEPT ![p] = "idle"]
    /\ existing' = [existing EXCEPT ![p] = EmptyIndex]
    /\ audit' = [audit EXCEPT ![p] = NoAudit]
    /\ UNCHANGED <<worksheet, pending, counts, caller, clock, simple_vars, nm, call_vars>>

Init == SheetInit /\ SimpleInit /\ hy = HyInit /\ nm = NmIdle /\ CallInit

\* passes run one at a time; no event's processing raises
Next ==
    \/ \E batch \in Batches, readOk \in BOOLEAN : UpsertBegin(1, batch, readOk)
    \/ \E writeOk \in BOOLEAN : UpsertOne(1, writeOk)
    \/ UpsertEnd(1)
    \/ SyncFetchFails(1)
    \/ \E events \in EventLists, run_id \in RunIds, backend \in SyncBackends,
          readOk \in BOOLEAN : SyncStart(1, events, run_id, backend, readOk, {})
    \/ \E dictOk \in BOOLEAN : SyncFinish(1, dictOk)

Spec == Init /\ [][Next]_vars

\* the passes a caller starts with upsert_booking_records only
NextDirect ==
    \/ \E batch \in Batches, readOk \in BOOLEAN : UpsertBegin(1, batch, readOk)
    \/ \E writeOk \in BOOLEAN : UpsertOne(1, writeOk)
    \/ UpsertEnd(1)

SpecDirect == Init /\ [][NextDirect]_vars

\* a stop signal ends a pass between two record upserts: it is no Exception,
\* so no except clause of the loop or of the pass sees it; what is written stays
Interrupt(p) ==
    /\ pc[p] = "upserting" /\ caller[p] = "direct"
    /\ pending[p] # <<>> /\ Len(pending[p]) < Len(audit[p].batch)
    /\ pc' = [pc EXCEPT ![p] = "idle"]
    /\ pending' = [pending EXCEPT ![p] = <<>>]
    /\ existing' = [existing EXCEPT ![p] = EmptyIndex]
    /\ audit' = [audit EXCEPT
                    ![p] = [NoAudit EXCEPT !.cut = <<audit[p].batch, audit[p].start_ws>>]]
    /\ UNCHANGED <<worksheet, counts, caller, sync_result, clock, simple_vars, hy, nm, call_vars>>

\* direct passes that a stop signal may interrupt
NextCancel == NextDirect \/ Interrupt(1)

SpecCancel == Init /\ [][NextCancel]_vars

\* the one-record batches of two callers
RaceBatches == {<<BookingRecord(id, 1)>> : id \in EventIds}

\* two callers run upsert_booking_records against the same sheet; every
\* read and write of the sheet is one step, and the steps of the two passes
\* interleave in any order
NextRace ==
    \/ \E p \in Passes, batch \in RaceBatches, readOk \in BOOLEAN : UpsertBegin(p, batch, readOk)
    \/ \E p \in Passes, writeOk \in BOOLEAN : UpsertOne(p, writeOk)
    \/ \E p \in Passes : UpsertEnd(p)

SpecRace == Init /\ [][NextRace]_vars

\* the passes sync_calendar_to_sheets runs only, all under one run id
NextSync ==
    \/ SyncFetchFails(1)
    \/ \E events \in EventLists, backend \in SyncBackends, readOk \in BOOLEAN :
          SyncStart(1, events, "run-1", backend, readOk, {})
    \/ \E writeOk \in BOOLEAN : UpsertOne(1, writeOk)
    \/ \E dictOk \in BOOLEAN : SyncFinish(1, dictOk)

SpecSync == Init /\ [][NextSync]_vars

\* the passes sync_calendar_to_sheets runs, the processing of any of the
\* events raising or not
NextSyncRun ==
    \/ SyncFetchFails(1)
    \/ \E events \in EventLists, backend \in SyncBackends, readOk \in BOOLEAN,
          raising \in SUBSET EventIds :
              SyncStart(1, events, "run-1", backend, readOk, raising)
    \/ \E writeOk \in BOOLEAN : UpsertOne(1, writeOk)
    \/ \E dictOk \in BOOLEAN : SyncFinish(1, dictOk)

SpecSyncRun == Init /\ [][NextSyncRun]_vars

-----------------------------------------------------------------------------
(* GoogleSheetsClient, reduced-column sheet Bookings_Simple.  Every cell is   *)
(* a sequence of characters, <<>> the empty cell; all rows have the width of *)
(* the grid.  The Sheets API leaves empty cells out of what it returns:     *)
(* get_all_values ends at the last non-empty row and pads every row to the   *)
(* widest non-empty one, row_values ends at the row's last non-empty cell.   *)

\* a plain string as a cell
Cell(str) == IF str = "" THEN <<>> ELSE <<str>>

\* the header _ensure_simple_sheet writes to A1:D1
SimpleHeader == <<<<"event_id">>, <<"date">>, <<"company_name">>, <<"person_names">>>>

\* index of the last non-empty cell of a row, 0 for an empty row
LastNonEmpty(row) ==
    IF \A i \in 1..Len(row) : row[i] = <<>> THEN 0
    ELSE CHOOSE i \in 1..Len(row) :
            row[i] # <<>> /\ \A j \in (i + 1)..Len(row) : row[j] = <<>>

\* ws.row_values(1)
RowValues1(ws) == SubSeq(ws[1], 1, LastNonEmpty(ws[1]))

\* ws.get_all_values(): rows up to the last non-empty one, padded to the
\* widest non-empty row
GetAllValues(ws) ==
    LET used == {i \in 1..Len(ws) : LastNonEmpty(ws[i]) > 0}
        rows == IF used = {} THEN 0
                ELSE CHOOSE i \in used : \A j \in used : j <= i
        width == IF used = {} THEN 0
                 ELSE LET w == CHOOSE i \in used :
                                  \A j \in used : LastNonEmpty(ws[j]) <= LastNonEmpty(ws[i])
                      IN LastNonEmpty(ws[w])
    IN [i \in 1..rows |-> SubSeq(ws[i], 1, width)]

\* ws.update('A{r}:D{r}', [values]): the first four cells of row r
UpdateCells(ws, r, values) ==
    [ws EXCEPT ![r] = values \o SubSeq(@, Len(values) + 1, Len(@))]

\* _migrate_simple_sheet_structure: nothing for an empty first row or one
\* that starts with 'event_id'; else a column is inserted before A and the
\* header written to A1:D1
MigrateSimpleSheetStructure(ws) ==
    LET headers == RowValues1(ws)
    IN IF headers = <<>> THEN ws
       ELSE IF headers[1] = <<"event_id">> THEN ws
       ELSE UpdateCells([i \in 1..Len(ws) |-> <<<<>>>> \o ws[i]], 1, SimpleHeader)

\* _ensure_simple_sheet: the sheet afterwards
EnsureSimpleSheet(ws) ==
    IF ws = NoSheet THEN <<SimpleHeader>> ELSE MigrateSimpleSheetStructure(ws)

\* ', '.join(names)
RECURSIVE Join(_)
Join(names) ==
    IF names = <<>> THEN <<>>
    ELSE IF Len(names) = 1 THEN names[1]
    ELSE names[1] \o <<",", " ">> \o Join(Tail(names))

\* the smallest element of a set of row indexes, 0 for the empty set
FirstOf(S) == IF S = {} THEN 0 ELSE CHOOSE i \in S : \A j \in S : i <= j

\* loop 1 of upsert_simple_record: index into all_values of the first row
\* whose A cell equals event_id (0 when the loop ends without break)
FirstPrimary(all_values, event_id) ==
    FirstOf({i \in 1..Len(all_values) :
                Len(all_values[i]) > 0 /\ all_values[i][1] = event_id})

\* loop 2: the first row whose B and D cells equal date_str and person_names_str
FirstSecondary(all_values, date_str, person_names_str) ==
    FirstOf({i \in 1..Len(all_values) :
                /\ Len(all_values[i]) >= 4 /\ all_values[i][2] = date_str
                /\ all_values[i][4] = person_names_str})

\* a bug ExistingRow could have: the (date, names) match is tried first
ExistingRowSecondaryFirst(all_values, event_id, date_str, person_names_str) ==
    LET primary == FirstPrimary(all_values, event_id)
        secondary == FirstSecondary(all_values, date_str, person_names_str)
    IN IF secondary # 0 THEN [row |-> secondary + 1, kind |-> "secondary"]
       ELSE IF primary # 0 THEN [row |-> primary + 1, kind |-> "primary"]
       ELSE [row |-> 0, kind |-> "insert"]

\* the two loops of upsert_simple_record over the data rows: the row number
\* (existing_row, 0 for None) and the loop that found it
ExistingRow(all_values, event_id, date_str, person_names_str) ==
    LET primary == FirstPrimary(all_values, event_id)
        secondary == FirstSecondary(all_values, date_str, person_names_str)
    IN IF primary # 0 THEN [row |-> primary + 1, kind |-> "primary"]
       ELSE IF secondary # 0 THEN [row |-> secondary + 1, kind |-> "secondary"]
       ELSE [row |-> 0, kind |-> "insert"]

\* the row upsert_simple_record writes: new_row_data
NewRowData(record) ==
    <<Cell(record.event_id), StrfDate(record.start_datetime),
      OrEmptyName(record.company_name), Join(record.person_names.list)>>

\* upsert_simple_record after _ensure_simple_sheet returned ws: the sheet
\* afterwards, the branch taken and the row written.  json.loads raising
\* leaves the sheet as it is.  On the insert branch append_row(['','','',''])
\* adds no non-empty cell, so last_row = len(get_all_values()) is the last
\* non-empty row and new_row_data is written there (row 0 is rejected).
UpsertSimpleOn(ws, record) ==
    IF ~record.person_names.wf THEN [ws |-> ws, kind |-> "failed", row |-> 0]
    ELSE LET all_values == GetAllValues(ws)
             data == IF Len(all_values) <= 1 THEN <<>> ELSE Tail(all_values)
             found == ExistingRow(data, Cell(record.event_id),
                                  StrfDate(record.start_datetime),
                                  Join(record.person_names.list))
             last_row == Len(all_values)
         IN IF found.row # 0
            THEN [ws |-> UpdateCells(ws, found.row, NewRowData(record)),
                  kind |-> found.kind, row |-> found.row]
            ELSE IF last_row = 0 THEN [ws |-> ws, kind |-> "failed", row |-> 0]
            ELSE [ws |-> UpdateCells(ws, last_row, NewRowData(record)),
                  kind |-> "insert", row |-> last_row]

\* a record handed to upsert_simple_record
SimpleRecord(id, d, names) ==
    [BookingRecord(id, 1) EXCEPT
        !.start_datetime = DateTime(d, 0, 0, TRUE),
        !.end_datetime = DateTime(d, 3600, 0, TRUE),
        !.company_name = IF id = "" THEN NoneName ELSE <<id, "-co">>,
        !.person_names = names]

SimpleRecords ==
    {SimpleRecord(id, d, JsonDumps(<<Name1, Name2>>)) :
        id \in EventIds \cup {""}, d \in {1, 2}}
    \cup {SimpleRecord("e1", 1, NotJson("x"))}

\* rows callers hand to append_simple_rows: with an empty key cell, or the
\* three cells (date, company_name, person_names) of its docstring
SimpleRows ==
    {<<<<>>, <<ToString(d)>>, <<"C">>, Join(<<Name1, Name2>>)>> : d \in {1, 2}}
    \cup {<<<<"2">>, <<"C">>, Join(<<Name1>>)>>}

\* upsert_simple_record(record); with ok = FALSE the first call to the API
\* raises and False is returned
UpsertSimpleRecord(record, ok) ==
    /\ LET ws == EnsureSimpleSheet(simple_ws)
           r == UpsertSimpleOn(ws, record)
       IN /\ Len(ws[1]) <= MaxSimpleCols
          /\ IF ok
             THEN /\ simple_ws' = r.ws
                  /\ simple_last' = [op |-> "upsert", record |-> record,
                                     kind |-> r.kind, row |-> r.row]
             ELSE /\ simple_ws' = simple_ws
                  /\ simple_last' = [op |-> "upsert", record |-> record,
                                     kind |-> "failed", row |-> 0]
    /\ UNCHANGED <<sheet_vars, hy, nm, call_vars>>

\* append_simple_rows(rows): the rows go below the last row, from column A
AppendSimpleRows(rows) ==
    /\ rows # <<>>
    /\ LET ws == EnsureSimpleSheet(simple_ws)
           width == Len(ws[1])
       IN /\ width <= MaxSimpleCols
          /\ Len(ws) - 1 + Len(rows) <= MaxSimpleRows
          /\ simple_ws' = ws \o [i \in 1..Len(rows) |->
                                    rows[i] \o [j \in 1..(width - Len(rows[i])) |-> <<>>]]
    /\ simple_last' = [NoSimpleCall EXCEPT !.op = "append"]
    /\ UNCHANGED <<sheet_vars, hy, nm, call_vars>>

InitSimple == SheetInit /\ SimpleInit /\ hy = HyInit /\ nm = NmIdle /\ CallInit

NextSimple ==
    \/ \E record \in SimpleRecords, ok \in BOOLEAN : UpsertSimpleRecord(record, ok)
    \/ \E row \in SimpleRows : AppendSimpleRows(<<row>>)

SpecSimple == InitSimple /\ [][NextSimple]_vars

-----------------------------------------------------------------------------
(* Claims about the extractors and the normalizer *)

C4_Original_MergedEqualsRuleResult ==
    OnFallbackPath /\ BackendUnparseable => hy.result = hy.rule_result

\* C4 as amended: with an unparseable backend answer on the fallback path the
\* merged result has the Pattern Extractor's company and person names, and
\* its confidence is 0.6 x the Pattern Extractor's confidence plus the bonus
\* (0.10 with a company and a name, 0.05 with one of them), capped at 1.0.
C4_UnparseableKeepsNamesScalesConfidence ==
    OnFallbackPath /\ BackendUnparseable =>
        /\ hy.result.company_name = hy.rule_result.company_name
        /\ hy.result.person_names = hy.rule_result.person_names
        /\ hy.result.confidence =
              Min(1000, (hy.rule_result.confidence * 6) \div 10
                        + (IF TruthyName(hy.rule_result.company_name)
                              /\ hy.rule_result.person_names # <<>> THEN 100
                           ELSE IF TruthyName(hy.rule_result.company_name)
                                   \/ hy.rule_result.person_names # <<>> THEN 50
                           ELSE 0))

\* C4 witness: an unparseable answer lowered a confidence of 0.5 to 0.4
C4_Witness ==
    /\ OnFallbackPath /\ BackendUnparseable
    /\ hy.rule_result = ExtractedData(<<"A">>, <<Name1, Name2>>, 500)
    /\ hy.result = ExtractedData(<<"A">>, <<Name1, Name2>>, 400)

\* C5 as stated: normalizing a normalized company name, or a normalized list
\* of person names, yields the same value again.
C5_Original_CanonicalizationIdempotent ==
    Len(nm.outs) = 2 => nm.outs[2] = nm.outs[1]

\* C10: on the fallback path the merged company is the only proposed one, or
\* with two proposals the one of the side with the strictly higher confidence,
\* the heuristic side's on a tie; exchanging the two confidences exchanges
\* the chosen side unless they are equal.
C10_CompanyMerge ==
    OnFallbackPath =>
        LET rc == hy.rule_result.company_name
            ac == hy.ai_result.company_name
            rconf == hy.rule_result.confidence
            aconf == hy.ai_result.confidence
            chosen == hy.result.company_name
        IN /\ TruthyName(rc) /\ ~TruthyName(ac) => chosen = rc
           /\ ~TruthyName(rc) /\ TruthyName(ac) => chosen = ac
           /\ TruthyName(rc) /\ TruthyName(ac) =>
                 /\ rconf > aconf => chosen = rc
                 /\ aconf > rconf => chosen = ac
                 /\ rconf = aconf => chosen = rc
                 /\ rconf # aconf =>
                       MergeCompanyNames(rc, ac, aconf, rconf)
                           = (IF chosen = rc /\ rconf > aconf THEN ac ELSE rc)

\* C10 witness: two different proposals with equal confidence, heuristic wins
C10_Witness ==
    /\ OnFallbackPath
    /\ hy.rule_result.company_name = <<"A">> /\ hy.ai_result.company_name = <<"B">>
    /\ hy.rule_result.confidence = hy.ai_result.confidence
    /\ hy.result.company_name = <<"A">>

-----------------------------------------------------------------------------
(* Claims about the full-column sheet and the sync pass *)

\* the data rows of ws whose identity key is k
RowsWithKey(ws, k) == {i \in 1..Len(ws) : ws[i][1] = k}

\* C1 as stated: when a pass upserting the one record R (with an identity
\* key) follows directly on a pass that upserted the same R, then at the end
\* of the second pass exactly one row holds R's identity key and the table
\* equals the table the second pass started from.
C1_Original_SecondPassIsNoOp ==
    [][(/\ pc[1] = "upserting" /\ pc'[1] = "idle" /\ caller[1] = "direct"
        /\ Len(audit[1].batch) = 1 /\ audit[1].prev = audit[1].batch
        /\ audit[1].batch[1].event_id # ""
        /\ counts[1].upserted = 1)
       => /\ Cardinality(RowsWithKey(worksheet', audit[1].batch[1].event_id)) = 1
          /\ worksheet' = audit[1].start_ws]_vars

\* C2 as stated: between passes no two rows of the full-column sheet hold the
\* same non-empty identity key.
C2_Original_NoDuplicateKeys ==
    pc[1] = "idle" =>
        \A i, j \in 1..Len(worksheet) :
            i # j /\ worksheet[i][1] # "" => worksheet[i][1] # worksheet[j][1]

\* a record that fails the structural checks of validate_booking_record
StructurallyInvalid(record) ==
    ValidateBookingRecord(record, DateTime(clock, 0, 1, TRUE)).errors # {}

\* C6 as stated: in a sync pass a record that fails validation is not
\* written, and when the pass returns its summary counts at least one error
\* for every such record and carries error details for them.
C6_Original_InvalidRecordNotPersisted ==
    [][(pc[1] = "upserting" /\ caller[1] = "sync")
       => /\ (pending[1] # <<>> /\ StructurallyInvalid(Head(pending[1])))
                => worksheet' = worksheet
          /\ pc'[1] = "idle"
                => LET bad == {i \in 1..Len(audit[1].batch) :
                                  StructurallyInvalid(audit[1].batch[i])}
                   IN /\ sync_result'[1].errors >= Cardinality(bad)
                      /\ bad # {} => sync_result'[1].error_details # <<>>]_vars

\* C8 as stated: when the identity key of the record being upserted is
\* already in the table and the write goes through, the table keeps its
\* number of rows, one row that held the key now holds the record's 14
\* values, and every other row is as before.
C8_Original_FullOverwriteInPlace ==
    [][(/\ pc[1] = "upserting" /\ pending[1] # <<>>
        /\ Head(pending[1]).event_id # ""
        /\ RowsWithKey(worksheet, Head(pending[1]).event_id) # {}
        /\ counts'[1].upserted = counts[1].upserted + 1)
       => /\ Len(worksheet') = Len(worksheet)
          /\ \E i \in RowsWithKey(worksheet, Head(pending[1]).event_id) :
                /\ worksheet'[i] = RecordToValues(Head(pending[1]))
                /\ \A j \in 1..Len(worksheet) : j # i => worksheet'[j] = worksheet[j]]_vars

-----------------------------------------------------------------------------
(* Claims about the reduced-column sheet *)

\* C7: whenever a data row's identity-key cell (column A of the sheet that
\* _ensure_simple_sheet returns) equals the record's identity key, a
\* successful upsert_simple_record writes the record's four values to
\* a row that held that key and leaves every other row as it was, so a row
\* matched only by (date, person names) is not the one updated.
C7_PrimaryKeyPrecedence ==
    [][(simple_last'.op = "upsert" /\ simple_last'.kind # "failed")
       => LET record == simple_last'.record
              ws == EnsureSimpleSheet(simple_ws)
              all_values == GetAllValues(ws)
              keyed == {i \in 2..Len(all_values) :
                           all_values[i][1] = Cell(record.event_id)}
          IN keyed # {} =>
                /\ Len(simple_ws') = Len(ws)
                /\ \E i \in keyed :
                      /\ SubSeq(simple_ws'[i], 1, 4) = NewRowData(record)
                      /\ \A j \in 1..Len(ws) : j # i => simple_ws'[j] = ws[j]]_vars

\* C7 witness: the record's key was in row 3 while row 2, with another key
\* cell, had the record's date and person names; row 3 was updated.
C7_Witness ==
    /\ simple_last.op = "upsert" /\ simple_last.kind = "primary" /\ simple_last.row = 3
    /\ simple_last.record.event_id = "e1"
    /\ Len(simple_ws) = 3
    /\ simple_ws[1] = SimpleHeader
    /\ simple_ws[2][1] = <<>>
    /\ simple_ws[2][2] = StrfDate(simple_last.record.start_datetime)
    /\ simple_ws[2][4] = Join(simple_last.record.person_names.list)
    /\ simple_ws[3] = NewRowData(simple_last.record)

\* C9 as stated: when a record with an identity key has been upserted and the
\* next call upserts another record of the same date and person names but
\* without a key, the second call writes the row the first one wrote and the
\* number of rows does not grow.
C9_Original_SecondUpdatesFirstRow ==
    [][(/\ simple_last.op = "upsert" /\ simple_last.kind # "failed"
        /\ simple_last.record.event_id # ""
        /\ simple_last'.op = "upsert" /\ simple_last'.kind # "failed"
        /\ simple_last'.record.event_id = ""
        /\ simple_last'.record.start_datetime.date = simple_last.record.start_datetime.date
        /\ simple_last'.record.person_names = simple_last.record.person_names)
       => /\ simple_last'.row = simple_last.row
          /\ Len(simple_ws') <= Len(simple_ws)]_vars

-----------------------------------------------------------------------------
(* RuleBasedExtractor (app/core/rules.py) *)

\* A text is a sequence of words, one blank between two words; "" is an empty
\* part of a join (' '.join(['', 'a']) = ' a').  The words stand for
\*   "memo"             a latin word of 4 letters
\*   "note50"           a latin word of 50 letters
\*   "/"                the delimiter "/"
\*   "AcmeKK"           latin "Acme" followed by the four kanji of the
\*                      legal-entity suffix kabushiki-gaisha (8 characters)
\*   "TanakaSama"       two kanji followed by the honorific kanji sama
\*   "Sakura"           three hiragana
\*   "info@sample.com"  an e-mail address of a domain of domain_company_map
\*   "Sample", "Inc."   the words of domain_company_map['sample.com']
\*   "[B]"              the booking mark, only at the start of a title
\* No word holds one of the delimiters | / x - ~ inside, and two different
\* words have no character in common that a fuzzy match could use.
WordLen(w) ==
    CASE w = "" -> 0 [] w = " " -> 1 [] w = "/" -> 1 [] w = "memo" -> 4
      [] w = "note50" -> 50 [] w = "AcmeKK" -> 8 [] w = "TanakaSama" -> 3
      [] w = "Sakura" -> 3 [] w = "info@sample.com" -> 15
      [] w = "Sample" -> 6 [] w = "Inc." -> 4 [] w = "shikigaisha" -> 3

\* words holding one of company_suffixes
SuffixWords == {"AcmeKK", "Inc."}
\* words of kanji only / of hiragana only / ending in sama, san after kanji
KanjiWords == {"TanakaSama"}
HiraganaWords == {"Sakura"}
HonorificWords == {"TanakaSama"}
\* words holding an e-mail address whose domain is a key of domain_company_map
EmailWords == {"info@sample.com"}
\* words made of one of the delimiters of _extract_company_from_title
Delimiters == {"/"}
\* the last (first) kanji, three at most, of a word ending (starting) in kanji
KanjiTail(w) ==
    CASE w = "TanakaSama" -> "TanakaSama" [] w = "AcmeKK" -> "shikigaisha"
      [] OTHER -> NoneStr
KanjiHead(w) == IF w = "TanakaSama" THEN "TanakaSama" ELSE NoneStr
\* Python's order of the words as strings
WordOrder ==
    <<"/", "AcmeKK", "Inc.", "Sample", "info@sample.com", "memo", "note50",
      "Sakura", "TanakaSama">>
WordRank(w) == CHOOSE i \in 1..Len(WordOrder) : WordOrder[i] = w

RECURSIVE SumLen(_)
SumLen(ws) == IF ws = <<>> THEN 0 ELSE WordLen(Head(ws)) + SumLen(Tail(ws))
\* len(text)
TextLen(ws) == IF ws = <<>> THEN 0 ELSE SumLen(ws) + Len(ws) - 1

\* re.sub(r'^[\s ]*[B]', '', title)
StripBookingMark(title) ==
    IF title[1] = "[B]"
    THEN (IF Len(title) = 1 THEN <<"">> ELSE Tail(title))
    ELSE title

RECURSIVE BeforeDelimiter(_)
\* re.split(delimiters, title, maxsplit=1)[0]
BeforeDelimiter(ws) ==
    IF ws = <<>> \/ Head(ws) \in Delimiters THEN <<>>
    ELSE <<Head(ws)>> \o BeforeDelimiter(Tail(ws))

\* str.strip() of a text
StripWords(ws) == SelectSeq(ws, LAMBDA w : w # "")

\* `not text`
EmptyText(ws) == ws = <<>> \/ ws = <<"">>

\* _extract_company_from_title(title).  The vocabulary has no word with a
\* generic company term, a "plus" pattern, a company ending or katakana, so
\* of the rules after the suffix rule only rule 6 (hiragana only, three or
\* more) can apply.
ExtractCompanyFromTitle(title) ==
    IF EmptyText(title) THEN NoneName
    ELSE LET head == StripWords(BeforeDelimiter(title))
         IN IF head = <<>> THEN NoneName
            ELSE IF \E i \in 1..Len(head) : head[i] \in SuffixWords THEN head
            ELSE IF Len(head) = 1 /\ head[1] \in HiraganaWords /\ WordLen(head[1]) >= 3
                 THEN head
            ELSE NoneName

RECURSIVE DisplayNames(_)
\* the displayName of every attendee that has one, in order
DisplayNames(attendees) ==
    IF attendees = <<>> THEN <<>>
    ELSE (IF Head(attendees).displayName = NoneName THEN <<>>
          ELSE Head(attendees).displayName) \o DisplayNames(Tail(attendees))

\* _collect_text_data(event_data)
CollectTextData(event_data) ==
    LET title == IF TruthyName(event_data.title)
                 THEN StripBookingMark(event_data.title) ELSE <<>>
        forced == IF title = <<>> THEN NoneName ELSE ExtractCompanyFromTitle(title)
    IN title
       \o (IF forced = NoneName THEN <<>> ELSE forced)
       \o (IF ~TruthyName(event_data.description) THEN <<>> ELSE event_data.description)
       \o (IF ~TruthyName(event_data.location) THEN <<>> ELSE event_data.location)
       \o DisplayNames(event_data.attendees)

\* _find_companies_by_suffix(text): the vocabulary has one suffix of the list only
FindCompaniesBySuffix(text) ==
    LET found == SelectSeq(text, LAMBDA w : w \in SuffixWords)
    IN [i \in 1..Len(found) |-> <<found[i]>>]

\* _extract_company_from_domain(text)
ExtractCompanyFromDomain(text) ==
    IF \E i \in 1..Len(text) : text[i] \in EmailWords
    THEN <<"Sample", "Inc.">> ELSE NoneName

\* fuzz.token_sort_ratio: the words sorted and joined by one blank
SortedAtoms(ws) ==
    LET s == SortSeq(StripWords(ws), LAMBDA a, b : WordRank(a) < WordRank(b))
    IN [i \in 1..(IF s = <<>> THEN 0 ELSE 2 * Len(s) - 1) |->
            IF i % 2 = 1 THEN s[(i + 1) \div 2] ELSE " "]

RECURSIVE Lcs(_, _)
\* characters of a longest common subsequence
Lcs(a, b) ==
    IF a = <<>> \/ b = <<>> THEN 0
    ELSE IF Head(a) = Head(b) THEN WordLen(Head(a)) + Lcs(Tail(a), Tail(b))
    ELSE Max(Lcs(Tail(a), b), Lcs(a, Tail(b)))

\* numerator and denominator of the normalised similarity of text and company
RatioNum(text, company) == 2 * Lcs(SortedAtoms(text), SortedAtoms(company))
RatioDen(text, company) == SumLen(SortedAtoms(text)) + SumLen(SortedAtoms(company))

\* _find_existing_company_match(text): every value process.extractOne may
\* return, the order in which it visits a set being arbitrary
FindExistingCompanyMatches(text, existing_companies) ==
    LET ok == {c \in existing_companies :
                 100 * RatioNum(text, c) >= 80 * RatioDen(text, c)}
        best == {c \in ok : \A d \in ok :
                   RatioNum(text, c) * RatioDen(text, d)
                     >= RatioNum(text, d) * RatioDen(text, c)}
    IN IF ok = {} THEN {NoneName} ELSE best

\* context.count(candidate)
CountIn(candidate, context) ==
    Cardinality({i \in 1..Len(context) :
                   /\ i + Len(candidate) - 1 <= Len(context)
                   /\ SubSeq(context, i, i + Len(candidate) - 1) = candidate})

\* the score of a candidate, in thousandths
CandidateScore(candidate, context) ==
    CountIn(candidate, context) * 600 + Min(TextLen(candidate) * 20, 400)

RECURSIVE BestFrom(_, _, _, _)
BestFrom(candidates, context, best_candidate, best_score) ==
    IF candidates = <<>> THEN best_candidate
    ELSE LET c == Head(candidates)
             score == CandidateScore(c, context)
         IN IF score > best_score
            THEN BestFrom(Tail(candidates), context, c, score)
            ELSE BestFrom(Tail(candidates), context, best_candidate, best_score)

\* _select_best_company_candidate(candidates, context)
SelectBestCompanyCandidate(candidates, context) ==
    IF candidates = <<>> THEN NoneName
    ELSE IF Len(candidates) = 1 THEN candidates[1]
    ELSE BestFrom(candidates, context, NoneName, 0)

\* _extract_company_name(text_data), existing_match being the value
\* _find_existing_company_match returns
ExtractCompanyName(text_data, existing_match) ==
    IF EmptyText(text_data) THEN NoneName
    ELSE LET title_based == ExtractCompanyFromTitle(text_data)
             domain_company == ExtractCompanyFromDomain(text_data)
             company_candidates ==
                 FindCompaniesBySuffix(text_data)
                 \o (IF domain_company = NoneName THEN <<>> ELSE <<domain_company>>)
                 \o (IF existing_match = NoneName THEN <<>> ELSE <<existing_match>>)
         IN IF title_based # NoneName THEN title_based
            ELSE SelectBestCompanyCandidate(company_candidates, text_data)

RECURSIVE SpacedFullnames(_)
\* re.findall(spaced_fullname, text): kanji, one blank, kanji; the matches
\* do not overlap
SpacedFullnames(text) ==
    IF Len(text) < 2 THEN {}
    ELSE IF KanjiTail(text[1]) # NoneStr /\ KanjiHead(text[2]) # NoneStr
         THEN {<<KanjiTail(text[1]), KanjiHead(text[2])>>}
              \cup SpacedFullnames(SubSeq(text, 3, Len(text)))
    ELSE SpacedFullnames(Tail(text))

\* a name of one word matches one of japanese_name_patterns
MatchesJapaneseNamePattern(w) ==
    \/ w \in KanjiWords /\ WordLen(w) >= 2 /\ WordLen(w) <= 4
    \/ w \in HiraganaWords /\ WordLen(w) >= 2 /\ WordLen(w) <= 6

\* _extract_names_from_text(text), as a set.  The vocabulary has no word with
\* sensei or shi and no kana word with an honorific.
ExtractNamesFromText(text) ==
    (IF Len(text) = 1 /\ MatchesJapaneseNamePattern(text[1]) THEN {text} ELSE {})
    \cup {<<text[i]>> : i \in {j \in 1..Len(text) : text[j] \in HonorificWords}}
    \cup SpacedFullnames(text)

\* _is_valid_person_name(name) of the rule extractor, for a name of one word.
\* No word of the vocabulary holds one of ng_terms.
RuleIsValidPersonName(name) ==
    /\ name # <<>> /\ TextLen(name) >= 2
    /\ \A i \in 1..Len(name) : name[i] \notin SuffixWords
    /\ \A i \in 1..Len(name) : name[i] \notin EmailWords
    /\ Len(name) = 1
    /\ \/ MatchesJapaneseNamePattern(name[1])
       \/ name[1] \in HonorificWords

\* _extract_person_names(text_data, event_data): the set person_names, which
\* the code returns as a list in the set's order
ExtractPersonNames(text_data, event_data) ==
    {event_data.attendees[i].displayName :
        i \in {j \in 1..Len(event_data.attendees) :
                 /\ event_data.attendees[j].displayName # NoneName
                 /\ RuleIsValidPersonName(event_data.attendees[j].displayName)}}
    \cup ExtractNamesFromText(text_data)

\* _calculate_confidence with the richness bonus given from 50 characters on
CalculateConfidenceFrom50(company_name, person_names, text_data, existing_companies) ==
    LET company ==
            IF company_name = NoneName \/ EmptyText(company_name) THEN 0
            ELSE IF \E i \in 1..Len(company_name) : company_name[i] \in SuffixWords THEN 400
            ELSE IF company_name \in existing_companies THEN 300
            ELSE IF \E i \in 1..Len(text_data) : text_data[i] \in EmailWords THEN 200
            ELSE 100
        persons ==
            IF person_names = {} THEN 0
            ELSE 300 + (IF Cardinality(person_names) > 1 THEN 200 ELSE 100)
        richness == IF TextLen(text_data) >= 50 THEN 100 ELSE 0
    IN Min(company + persons + richness, 1000)

\* _calculate_confidence(company_name, person_names, text_data), in thousandths
CalculateConfidence(company_name, person_names, text_data, existing_companies) ==
    LET company ==
            IF company_name = NoneName \/ EmptyText(company_name) THEN 0
            ELSE IF \E i \in 1..Len(company_name) : company_name[i] \in SuffixWords THEN 400
            ELSE IF company_name \in existing_companies THEN 300
            ELSE IF \E i \in 1..Len(text_data) : text_data[i] \in EmailWords THEN 200
            ELSE 100
        persons ==
            IF person_names = {} THEN 0
            ELSE 300 + (IF Cardinality(person_names) > 1 THEN 200 ELSE 100)
        richness == IF TextLen(text_data) > 50 THEN 100 ELSE 0
    IN Min(company + persons + richness, 1000)

\* extract_from_event(event_data) of the rule extractor.  No step of it
\* raises on an event whose fields are texts, so the except branch is not taken.
RuleExtractFromEvent(event_data, existing_companies, existing_match) ==
    LET text_data == CollectTextData(event_data)
        company_name == ExtractCompanyName(text_data, existing_match)
        person_names == ExtractPersonNames(text_data, event_data)
    IN [company_name |-> company_name, person_names |-> person_names,
        confidence |-> CalculateConfidence(company_name, person_names, text_data,
                                           existing_companies)]

\* the events handed to the rule extractor
TitleWords == {"memo", "AcmeKK", "TanakaSama", "Sakura", "/"}
Titles ==
    {NoneName, <<"[B]">>, <<"[B]", "memo">>} \cup SeqsUpTo(TitleWords, MaxTitleWords)
Descriptions == {NoneName, <<"note50">>, <<"Sakura">>, <<"TanakaSama">>}
Locations == {NoneName, <<"memo">>, <<"info@sample.com">>}
AttendeeLists ==
    {<<>>, <<[displayName |-> <<"TanakaSama">>]>>, <<[displayName |-> NoneName]>>,
     <<[displayName |-> <<"memo">>], [displayName |-> <<"Sakura">>]>>}
RuleEvents ==
    [title : Titles, description : Descriptions, location : Locations,
     attendees : AttendeeLists]
\* the company names update_existing_companies is called with
KnownCompanies == {<<"memo">>}

\* update_existing_companies(companies)
UpdateExistingCompanies(companies) ==
    /\ ru' = [ru EXCEPT !.existing_companies = @ \cup companies]
    /\ UNCHANGED <<sheet_vars, simple_vars, hy, nm, vr, cl>>

\* extract_from_event(event_data) on the event the behaviour started with
RuleExtract ==
    /\ \E m \in FindExistingCompanyMatches(CollectTextData(ru.event_data),
                                           ru.existing_companies) :
          ru' = [ru EXCEPT !.pc = "done",
                           !.existing_at_call = ru.existing_companies,
                           !.result = RuleExtractFromEvent(ru.event_data,
                                          ru.existing_companies, m)]
    /\ UNCHANGED <<sheet_vars, simple_vars, hy, nm, vr, cl>>

InitRules ==
    /\ SheetInit /\ SimpleInit /\ hy = HyInit /\ nm = NmIdle /\ vr = VrIdle /\ cl = ClIdle
    /\ \E e \in RuleEvents : ru = [RuIdle EXCEPT !.event_data = e]

NextRules ==
    \/ UpdateExistingCompanies(KnownCompanies)
    \/ RuleExtract

SpecRules == InitRules /\ [][NextRules]_vars

\* the fields of an event hold nothing the extractor takes for a company or
\* a person, the event has no attendees, and no known company matches its text
NothingToExtract(event_data, existing_companies) ==
    /\ \A f \in {event_data.title, event_data.description, event_data.location} :
          f = NoneName \/ \A i \in 1..Len(f) : f[i] \in {"[B]", "memo", "note50", "/"}
    /\ event_data.attendees = <<>>
    /\ FindExistingCompanyMatches(CollectTextData(event_data), existing_companies)
         = {NoneName}

C11_WitnessLongText ==
    /\ ru.pc = "done" /\ NothingToExtract(ru.event_data, ru.existing_at_call)
    /\ ru.event_data.title = <<"memo">> /\ ru.event_data.description = <<"note50">>
    /\ ru.result.confidence = 100

-----------------------------------------------------------------------------
(* AIExtractor.extract_from_event *)

\* the backend is one of those the claim lists: no client, a call that
\* raises, a response json.loads rejects, JSON that is no object, or an
\* object whose confidence is outside [0, 1]
BackendYieldsNothing(backend) ==
    \/ ~backend.client
    \/ backend.raises
    \/ backend.response.kind \in {"garbage", "not_object"}
    \/ backend.response.confidence < 0
    \/ backend.response.confidence > 1000

\* C12: whenever the model-backed extractor was called with an unconfigured
\* client, a backend call that raises, a response without parseable JSON, JSON
\* that is no object, or a confidence outside [0, 1], it returned the empty
\* candidate (no company, no persons, confidence 0.0).
C12_AIExtractorReturnsEmptyCandidate ==
    (hy.pc = "done" /\ hy.ai_calls = 1 /\ BackendYieldsNothing(hy.backend))
    => hy.ai_result = EmptyExtraction

\* C12 witness: the backend answered with an object naming a company and a
\* confidence of 1.5, and the extractor returned the empty candidate
C12_Witness ==
    /\ hy.pc = "done" /\ hy.ai_calls = 1
    /\ hy.backend.client /\ ~hy.backend.raises
    /\ hy.backend.response.kind = "object"
    /\ hy.backend.response.company_name = <<"B">>
    /\ hy.backend.response.confidence = 1500
    /\ hy.ai_result = EmptyExtraction

-----------------------------------------------------------------------------
(* sync_calendar_to_sheets and upsert_booking_records: failures *)

\* C13: a pass whose event fetch fails writes no row of the full-column
\* sheet and returns a summary with errors >= 1 and a non-empty
\* error_details.
C13_FetchFailureAbortsPass ==
    [][SyncFetchFails(1)
       => /\ worksheet' = worksheet
          /\ sync_result'[1].returned
          /\ sync_result'[1].errors >= 1
          /\ sync_result'[1].error_details # <<>>]_vars

\* C13 witness: the sheet holds a row of an earlier pass and the last pass
\* returned the summary of a failed fetch
C13_Witness ==
    /\ Len(worksheet) >= 1
    /\ pc[1] = "idle" /\ sync_result[1].returned
    /\ sync_result[1].total_events = 0
    /\ sync_result[1].errors = 1
    /\ sync_result[1].error_details = <<"sync">>

\* C14: a rejected write counts one error for its record and nothing else
\* (no upsert counted, no row changed, the next record is the one after it),
\* every record of the batch is taken in order, and when the loop is over
\* upserted + errors is the number of records of the batch.
C14_RejectedWriteCountsOnce ==
    [][/\ UpsertOne(1, FALSE)
          => /\ counts'[1].errors = counts[1].errors + 1
             /\ counts'[1].upserted = counts[1].upserted
             /\ worksheet' = worksheet
             /\ pending'[1] = Tail(pending[1])
       /\ pc'[1] = "upserting"
          => LET batch == audit'[1].batch
                 taken == counts'[1].upserted + counts'[1].errors
             IN /\ taken + Len(pending'[1]) = Len(batch)
                /\ pending'[1] = SubSeq(batch, taken + 1, Len(batch))]_vars

\* C14 witness: of a batch of two records the first write was rejected and
\* the second record was appended; the loop is over
C14_Witness ==
    /\ pc[1] = "upserting" /\ pending[1] = <<>>
    /\ Len(audit[1].batch) = 2
    /\ counts[1] = [upserted |-> 1, errors |-> 1]
    /\ Len(worksheet) = Len(audit[1].start_ws) + 1
    /\ worksheet[Len(worksheet)] = RecordToValues(audit[1].batch[2])
    /\ audit[1].batch[1].event_id # audit[1].batch[2].event_id

-----------------------------------------------------------------------------
(* upsert_booking_records: the order of the batch *)

RECURSIVE ApplyRecords(_, _, _, _)
\* the sheet after the loop of upsert_booking_records has taken `records` in
\* order, starting from ws with the index existing_records, when the sheet
\* rejects the writes of the records in `rejected` and no other
ApplyRecords(ws, records, existing_records, rejected) ==
    IF records = <<>> THEN ws
    ELSE ApplyRecords(UpsertSingleRecord(ws, Head(records), existing_records,
                                         Head(records) \notin rejected).ws,
                      Tail(records), existing_records, rejected)

\* every order of the records of a batch
BatchOrders(batch) ==
    {[i \in 1..Len(batch) |-> batch[o[i]]] : o \in Orderings(1..Len(batch))}

\* a sheet as a mapping from identity key to the rows holding it
KeyedView(ws) ==
    [k \in {ws[i][1] : i \in 1..Len(ws)} |-> SelectSeq(ws, LAMBDA row : row[1] = k)]

\* no two records of the batch have the same identity key
DistinctKeys(batch) ==
    \A i, j \in 1..Len(batch) : i # j => batch[i].event_id # batch[j].event_id

\* from the current point of the pass, every order of the records still to
\* be upserted ends in the same sheet as a mapping, with the same number of rows
OrderIndependent ==
    \A rejected \in SUBSET Range(pending[1]) :
        LET final == ApplyRecords(worksheet, pending[1], existing[1], rejected)
        IN \A perm \in BatchOrders(pending[1]) :
              LET other == ApplyRecords(worksheet, perm, existing[1], rejected)
              IN KeyedView(other) = KeyedView(final) /\ Len(other) = Len(final)

\* C15 as stated: for any batch upserted in one pass onto any starting
\* table, every permutation of the batch yields the same final sheet viewed as
\* a mapping from identity key to row contents, and the same number of rows.
C15_Original_AnyBatchOrderIndependent ==
    pc[1] = "upserting" => OrderIndependent

\* C15 amended: the same for any batch whose records have pairwise different
\* identity keys.
C15_DistinctKeysOrderIndependent ==
    (pc[1] = "upserting" /\ DistinctKeys(pending[1])) => OrderIndependent

\* C15 witness: a pass is about to upsert two records with different keys,
\* one of which updates a row of the sheet while the other is appended
C15_Witness ==
    /\ pc[1] = "upserting" /\ Len(pending[1]) = 2 /\ DistinctKeys(pending[1])
    /\ pending[1][1].event_id \in DOMAIN existing[1]
    /\ pending[1][2].event_id \notin DOMAIN existing[1]
    /\ worksheet[existing[1][pending[1][1].event_id] - 1]
         # RecordToValues(pending[1][1])

-----------------------------------------------------------------------------
(* upsert_booking_records: interruption between two records *)

\* ws is what the pass leaves after some prefix of its batch, every row
\* written whole (a rejected write leaves its row as it was)
PrefixApplied(ws, batch, start_ws, index) ==
    \E n \in 0..Len(batch) :
        \E rejected \in SUBSET Range(SubSeq(batch, 1, n)) :
            ws = ApplyRecords(start_ws, SubSeq(batch, 1, n), index, rejected)

\* the sheet an uninterrupted pass over batch, with no failure, makes of start_ws
Uninterrupted(start_ws, batch) ==
    ApplyRecords(start_ws, batch, IndexRead(start_ws, TRUE), {})

\* C16 as stated: when a pass is interrupted between two record upserts the
\* sheet is the result of applying a prefix of the batch to the sheet the
\* pass started from, and when the full pass is then run again and every write
\* of it is accepted, the sheet at its end is the one an uninterrupted pass
\* would have left (as a mapping from key to rows, and in number of rows).
C16_Original_InterruptThenRerunConverges ==
    [][/\ Interrupt(1)
          => PrefixApplied(worksheet, audit[1].batch, audit[1].start_ws, existing[1])
       /\ (/\ pc[1] = "upserting" /\ pc'[1] = "idle" /\ pending[1] = <<>>
           /\ audit[1].cut # <<>> /\ audit[1].batch = audit[1].cut[1]
           /\ counts[1].errors = 0)
          => LET whole == Uninterrupted(audit[1].cut[2], audit[1].batch)
             IN /\ KeyedView(worksheet') = KeyedView(whole)
                /\ Len(worksheet') = Len(whole)]_vars

-----------------------------------------------------------------------------
(* CalendarSyncService.cleanup_old_records and GoogleSheetsClient.delete_record *)

\* worksheet.delete_rows(row_number) on the data rows
DeleteRows(ws, row_number) ==
    LET i == row_number - 1
    IN IF i >= 1 /\ i <= Len(ws)
       THEN SubSeq(ws, 1, i - 1) \o SubSeq(ws, i + 1, Len(ws))
       ELSE ws

\* delete_record(event_id): the sheet afterwards and the returned flag.  With
\* ok false the index read fails (the index is {}) or the delete is rejected;
\* both leave the sheet alone and return False.
DeleteRecord(ws, event_id, ok) ==
    LET existing_records == IndexRead(ws, ok)
    IN IF event_id \notin DOMAIN existing_records THEN [ws |-> ws, ok |-> FALSE]
       ELSE IF ~ok THEN [ws |-> ws, ok |-> FALSE]
       ELSE [ws |-> DeleteRows(ws, existing_records[event_id]), ok |-> TRUE]

\* datetime.strptime(cell, '%Y-%m-%d %H:%M:%S') of a timestamp cell
Strptime(cell) == DateTime(cell[1], cell[2], 0, FALSE)

\* datetime.now() - timedelta(days=days_to_keep)
CutoffDate(now, days_to_keep) == [now EXCEPT !.date = @ - days_to_keep]

\* the row's updated_at cell (column M) is set and earlier than cutoff_date
OlderThan(row, cutoff_date) ==
    row[13] # <<0, 0>> /\ DtLess(Strptime(row[13]), cutoff_date)

\* records_to_remove: the event_id of every row older than cutoff_date, in row order
RecordsToRemove(ws, cutoff_date) ==
    LET old == SelectSeq(ws, LAMBDA row : OlderThan(row, cutoff_date))
    IN [i \in 1..Len(old) |-> old[i][1]]

RECURSIVE DeleteAll(_, _, _, _, _)
\* the delete loop of cleanup_old_records from its n-th call of delete_record
\* on; the calls whose number is in `failing` fail
DeleteAll(ws, event_ids, n, failing, removed_count) ==
    IF event_ids = <<>> THEN [ws |-> ws, removed |-> removed_count]
    ELSE LET d == DeleteRecord(ws, Head(event_ids), n \notin failing)
         IN DeleteAll(d.ws, Tail(event_ids), n + 1, failing,
                      IF d.ok THEN removed_count + 1 ELSE removed_count)

\* cleanup_old_records(days_to_keep): the sheet afterwards and the returned
\* dictionary; a failed read of the records returns the error dictionary
CleanupOldRecords(ws, now, days_to_keep, readOk, failing) ==
    LET cutoff_date == CutoffDate(now, days_to_keep)
        done == DeleteAll(ws, RecordsToRemove(ws, cutoff_date), 1, failing, 0)
    IN IF ~readOk
       THEN [ws |-> ws, cutoff_date |-> cutoff_date,
             result |-> [removed |-> 0, total_checked |-> 0, error |-> TRUE]]
       ELSE [ws |-> done.ws, cutoff_date |-> cutoff_date,
             result |-> [removed |-> done.removed, total_checked |-> Len(ws),
                         error |-> FALSE]]

\* days_to_keep the callers pass
DaysToKeep == {1, 2}

\* cleanup_old_records(days_to_keep), between two passes
Cleanup(days_to_keep, readOk, failing) ==
    /\ pc[1] = "idle"
    /\ LET c == CleanupOldRecords(worksheet, Now, days_to_keep, readOk, failing)
       IN /\ worksheet' = c.ws
          /\ cl' = [pc |-> "done", cutoff_date |-> c.cutoff_date, result |-> c.result]
    /\ UNCHANGED <<pc, existing, pending, counts, caller, sync_result, audit, clock,
                   simple_vars, hy, nm, ru, vr>>

\* a day passes
Tick ==
    /\ clock < MaxClock
    /\ clock' = clock + 1
    /\ UNCHANGED <<worksheet, pc, existing, pending, counts, caller, sync_result, audit,
                   simple_vars, hy, nm, call_vars>>

\* direct passes, days passing, and cleanups between the passes
NextCleanup ==
    \/ NextDirect
    \/ Tick
    \/ \E days_to_keep \in DaysToKeep, readOk \in BOOLEAN, failing \in SUBSET (1..MaxRows) :
          Cleanup(days_to_keep, readOk, failing)

SpecCleanup == Init /\ [][NextCleanup]_vars

\* C17 as stated: when cleanup_old_records(days) has returned, the storage
\* having accepted every read and delete, no row of the sheet has a
\* last-updated timestamp older than now - days.
C17_Original_NoStaleRowRemains ==
    [][(\E days_to_keep \in DaysToKeep : Cleanup(days_to_keep, TRUE, {}))
       => \A i \in 1..Len(worksheet') : ~OlderThan(worksheet'[i], cl'.cutoff_date)]_vars

-----------------------------------------------------------------------------
(* DataNormalizer.validate_booking_record, called on records handed in and *)
(* on the records _process_single_event builds                               *)

\* a string json.loads accepts that is no list: '{}'
JsonObject == [wf |-> TRUE, list |-> <<>>, raw |-> "{}"]

\* start and end times of the records handed in: a datetime given to
\* BookingRecord goes through ensure_timezone and is aware, an ISO string
\* without an offset is parsed by the model class and stays naive
ValidationTimes ==
    {DateTime(d, 0, 0, a) : d \in {1, 2}, a \in BOOLEAN}

\* BookingRecord values handed to validate_booking_record.  start_datetime
\* and end_datetime are required fields of the class, so no record lacks them.
ValidationRecords ==
    {[BookingRecord(id, 2) EXCEPT
        !.title = title, !.start_datetime = start, !.end_datetime = end,
        !.status = status, !.person_names = person_names,
        !.extracted_confidence = extracted_confidence] :
        id \in {"", "e1"}, title \in {<<>>, <<"[B]", "t1">>},
        start \in ValidationTimes, end \in ValidationTimes,
        status \in {"active", "pending"},
        person_names \in {JsonDumps(<<>>), NotJson("oops"), JsonObject},
        extracted_confidence \in {NoneNum, 400, 900}}

\* validate_booking_record(record) on a record handed in
Validate ==
    /\ vr.pc = "new" /\ vr.origin = "direct"
    /\ vr' = [vr EXCEPT !.pc = "done",
                        !.result = ValidateBookingRecord(vr.record, Now)]
    /\ UNCHANGED <<sheet_vars, simple_vars, hy, nm, ru, cl>>

\* _process_single_event(event, run_id): the record is built and validated
ProcessAndValidate(backend) ==
    /\ vr.pc = "new" /\ vr.origin = "sync"
    /\ \E booking_record \in
            ProcessSingleEvent(vr.event, "run-1", Now, backend, hy.confidence_threshold) :
          vr' = [vr EXCEPT !.pc = "done", !.record = booking_record,
                           !.result = ValidateBookingRecord(booking_record, Now)]
    /\ UNCHANGED <<sheet_vars, simple_vars, hy, nm, ru, cl>>

InitValidate ==
    /\ SheetInit /\ SimpleInit /\ hy = HyInit /\ nm = NmIdle /\ ru = RuIdle /\ cl = ClIdle
    /\ \/ \E record \in ValidationRecords :
             vr = [VrIdle EXCEPT !.origin = "direct", !.record = record]
       \/ \E event \in {e \in Events : IsBEvent(e.title)} :
             vr = [VrIdle EXCEPT !.origin = "sync", !.event = event]

NextValidate ==
    \/ Tick
    \/ Validate
    \/ \E backend \in SyncBackends : ProcessAndValidate(backend)

SpecValidate == InitValidate /\ [][NextValidate]_vars

\* the structural conditions of a record: keys present, start before end,
\* a permitted status, both list fields parse as lists
StructuralFault(record) ==
    \/ record.event_id = "" \/ record.title = <<>>
    \/ (record.start_datetime.aware = record.end_datetime.aware
        /\ ~DtLess(record.start_datetime, record.end_datetime))
    \/ record.status \notin {"active", "removed", "cancelled"}
    \/ ~record.person_names.wf \/ record.person_names.raw # ""
    \/ ~record.attendees.wf \/ record.attendees.raw # ""

\* C18 as stated: validate_booking_record returns is_valid = false if and
\* only if the key, title, start or end is missing, start is not strictly
\* before end, the status is not a permitted one, or a list field does not
\* parse as a well-formed list.
C18_Original_InvalidIffStructuralFault ==
    vr.pc = "done" => (~vr.result.is_valid <=> StructuralFault(vr.record))

\* C19 as stated: a record built by the sync service that satisfies the
\* structural conditions and whose start is in the past, or whose confidence
\* is below 0.5, is reported valid, without errors and with the warning.
C19_Original_WarningsAreNonFatal ==
    (vr.pc = "done" /\ vr.origin = "sync" /\ ~StructuralFault(vr.record))
    => LET past == vr.record.start_datetime.date < clock
                   \/ (vr.record.start_datetime.date = clock
                       /\ vr.record.start_datetime.sec = 0)
           low == vr.record.extracted_confidence # NoneNum
                  /\ vr.record.extracted_confidence < 500
       IN (past \/ low)
          => /\ vr.result.is_valid /\ vr.result.errors = {}
             /\ past => "past" \in vr.result.warnings
             /\ low => "low_confidence" \in vr.result.warnings

-----------------------------------------------------------------------------
(* DataNormalizer.normalize_extracted_data on the candidates of either extractor *)

\* `sub in s`
Contains(s, sub) ==
    \E i \in 1..(Len(s) - Len(sub) + 1) : SubSeq(s, i, i + Len(sub) - 1) = sub

\* legal-entity suffixes (company_suffixes) and the role/occasion nouns
\* (ng_terms) the Pattern Extractor refuses in a person name; the first two
\* of each list
company_suffixes == {<<"kabu", "shiki", "kai", "sha">>, <<"yuu", "gen", "kai", "sha">>}
ng_terms == {<<"ko", "-", "chi", "n", "gu">>, <<"ko", "-", "chi">>}

\* person names a language-model answer can carry: the normalizer's samples,
\* a company with its suffix, a role noun behind a family name
CandidateNames ==
    NameSamples \cup {<<"k1", "kabu", "shiki", "kai", "sha">>,
                      <<"k1", "k2", "ko", "-", "chi">>}

\* the candidates handed to normalize_extracted_data
Candidates ==
    {ExtractedData(c, n, conf) :
        c \in {NoneName, <<>>, <<" ">>, <<" ", "A", "(KK)">>},
        n \in SeqsUpTo(CandidateNames, MaxNames),
        conf \in {0, 900}}

\* normalize_extracted_data(extracted_data).  The except branch returns the
\* input; nothing in the try block raises for an ExtractedData, whose fields
\* the model class has typed.
NormalizeData ==
    /\ nm.kind = "extracted" /\ nm.outs = <<>>
    /\ \E result \in NormalizeExtractedData(nm.input) :
          nm' = [nm EXCEPT !.outs = <<result>>]
    /\ UNCHANGED <<sheet_vars, simple_vars, hy, call_vars>>

InitNormData ==
    /\ SheetInit /\ SimpleInit /\ hy = HyInit /\ CallInit
    /\ \E extracted_data \in Candidates :
          nm = [kind |-> "extracted", input |-> extracted_data, outs |-> <<>>]

NextNormData == NormalizeData

SpecNormData == InitNormData /\ [][NextNormData]_vars

\* the validity predicate of a person name: at least 2 characters, not
\* purely numeric, no email address, no URL, not whitespace only, no
\* legal-entity suffix, no role or occasion noun
PassesValidityPredicate(name) ==
    /\ Len(name) >= 2
    /\ ~AllIn(name, Digits) /\ ~IsEmail(name) /\ ~IsUrl(name)
    /\ ~AllIn(name, Whitespace)
    /\ \A suffix \in company_suffixes : ~Contains(name, suffix)
    /\ \A term \in ng_terms : ~Contains(name, term)

\* C20 as stated: every person name in the output of normalize_extracted_data
\* passes the validity predicate, and the company name is absent or
\* non-empty after trimming.
C20_Original_NormalizedResultIsValidated ==
    (nm.kind = "extracted" /\ nm.outs # <<>>)
    => /\ \A i \in 1..Len(nm.outs[1].person_names) :
             PassesValidityPredicate(nm.outs[1].person_names[i])
       /\ \/ nm.outs[1].company_name = NoneName
          \/ Strip(nm.outs[1].company_name) # <<>>

-----------------------------------------------------------------------------
(* HybridExtractor: confidence and person names of the merged result *)

\* C21: on the fallback path the merged confidence is 0.6 x the heuristic
\* confidence + 0.4 x the fallback confidence + bonus, clamped to [0, 1]; the
\* bonus is 0.10 when the merged result has a company and a person name, 0.05
\* with exactly one of the two, 0 with neither.  Stated in ten-thousandths.
C21_MergedConfidenceFormula ==
    OnFallbackPath =>
        LET has_company == TruthyName(hy.result.company_name)
            has_names == hy.result.person_names # <<>>
            bonus == IF has_company /\ has_names THEN 1000
                     ELSE IF has_company # has_names THEN 500 ELSE 0
            raw == 6 * hy.rule_result.confidence + 4 * hy.ai_result.confidence + bonus
        IN /\ 10 * hy.result.confidence
                = (IF raw > 10000 THEN 10000 ELSE IF raw < 0 THEN 0 ELSE raw)
           /\ hy.result.confidence >= 0 /\ hy.result.confidence <= 1000

\* C21 witness: 0.6 x 0.9 + 0.4 x 1.0 + 0.10 = 1.04 came out as 1.0
C21_Witness ==
    /\ OnFallbackPath
    /\ hy.rule_result.confidence = 900 /\ hy.ai_result.confidence = 1000
    /\ TruthyName(hy.result.company_name) /\ hy.result.person_names # <<>>
    /\ hy.result.confidence = 1000

\* C21 witness: only names were found, the bonus was 0.05
C21_WitnessHalfBonus ==
    /\ OnFallbackPath
    /\ hy.rule_result.confidence = 500 /\ hy.ai_result.confidence = 0
    /\ ~TruthyName(hy.result.company_name) /\ hy.result.person_names # <<>>
    /\ hy.result.confidence = 350

\* q has no element twice
NoRepeats(q) == \A i, j \in 1..Len(q) : i # j => q[i] # q[j]

\* C22 as stated: on the fallback path, when one side proposed names the
\* merged list is that side's list; when both did, it is the list of the side
\* with the higher confidence (the heuristic side on a tie) in its order,
\* followed by the other side's names that are not in it; and the merged
\* list holds no name twice.
C22_Original_PersonNameMerge ==
    OnFallbackPath =>
        LET rn == hy.rule_result.person_names
            an == hy.ai_result.person_names
            base == IF hy.rule_result.confidence >= hy.ai_result.confidence THEN rn ELSE an
            other == IF hy.rule_result.confidence >= hy.ai_result.confidence THEN an ELSE rn
            merged == hy.result.person_names
        IN /\ rn # <<>> /\ an = <<>> => merged = rn
           /\ rn = <<>> /\ an # <<>> => merged = an
           /\ rn # <<>> /\ an # <<>> =>
                 /\ Len(merged) >= Len(base) /\ SubSeq(merged, 1, Len(base)) = base
                 /\ \A i \in (Len(base) + 1)..Len(merged) :
                       merged[i] \in Range(other) /\ merged[i] \notin Range(base)
                 /\ Range(merged) = Range(base) \cup Range(other)
           /\ NoRepeats(merged)

-----------------------------------------------------------------------------
(* RuleBasedExtractor: the confidence of a result *)

\* C23 as stated: the confidence of the rule extractor is min(1.0, company
\* part + person part + text part); the company part is 0.4 for a company
\* with a legal-entity suffix, else 0.3 for one that is a known-company
\* entry, else 0.2 for one derived from an email domain, else 0.1 for any
\* other company, 0 without one; the person part is 0.5 with more than one
\* name, 0.4 with exactly one, else 0; the text part is 0.1 when the combined
\* text exceeds 50 characters; the result is within [0.0, 1.0].
C23_Original_AdditiveConfidence ==
    ru.pc = "done" =>
        LET text_data == CollectTextData(ru.event_data)
            company_name == ru.result.company_name
            company_part ==
                IF company_name = NoneName THEN 0
                ELSE IF \E i \in 1..Len(company_name) : company_name[i] \in SuffixWords
                     THEN 400
                ELSE IF company_name \in ru.existing_at_call THEN 300
                ELSE IF company_name = ExtractCompanyFromDomain(text_data) THEN 200
                ELSE 100
            person_part ==
                IF Cardinality(ru.result.person_names) > 1 THEN 500
                ELSE IF Cardinality(ru.result.person_names) = 1 THEN 400 ELSE 0
            text_part == IF TextLen(text_data) > 50 THEN 100 ELSE 0
        IN /\ ru.result.confidence = Min(1000, company_part + person_part + text_part)
           /\ ru.result.confidence >= 0 /\ ru.result.confidence <= 1000

-----------------------------------------------------------------------------
(* upsert_booking_records: two passes at the same time *)

\* pass p writes its record with key k as a further row for k
AddsRowForKey(p, k) ==
    /\ UpsertOne(p, TRUE)
    /\ Head(pending[p]).event_id = k
    /\ RowsWithKey(worksheet, k) # {}
    /\ Cardinality(RowsWithKey(worksheet', k)) > Cardinality(RowsWithKey(worksheet, k))

IndexReadFailed(p) ==
    pc[p] = "upserting" /\ existing[p] # GetExistingRecords(audit[p].start_ws)

\* C25 as stated: when the read of the sheet fails as the index is built at
\* the start of a pass, the pass appends no row for an identity key that the
\* sheet already holds.
C25_Original_ReadFailureDoesNotDuplicate ==
    IndexReadFailed(1) =>
        \A k \in EventIds :
            RowsWithKey(audit[1].start_ws, k) # {}
            => Cardinality(RowsWithKey(worksheet, k))
                 = Cardinality(RowsWithKey(audit[1].start_ws, k))

-----------------------------------------------------------------------------
(* upsert_simple_record: what a call does to the rows of Bookings_Simple *)

\* the step is a call of upsert_simple_record that returned True
SimpleUpsertDone == simple_last'.op = "upsert" /\ simple_last'.kind # "failed"

\* C26 as stated: upsert_simple_record never changes or erases the identity
\* key of a row that holds a non-empty identity key: the key cell of such a
\* row of the sheet _ensure_simple_sheet returns is the same after the call.
C26_Original_KeyOfExistingRowKept ==
    [][SimpleUpsertDone
       => LET ws == EnsureSimpleSheet(simple_ws)
          IN \A i \in 2..Len(ws) : ws[i][1] # <<>> => simple_ws'[i][1] = ws[i][1]]_vars

\* C27 as stated: a record with an empty event_id updates an existing row
\* only if the row's date and joined person names equal the record's; the
\* primary-key step never matches it to a row because that row's key cell is
\* empty too.
C27_Original_KeylessMatchesByDateAndNames ==
    [][(SimpleUpsertDone /\ simple_last'.record.event_id = ""
        /\ simple_last'.kind \in {"primary", "secondary"})
       => LET ws == EnsureSimpleSheet(simple_ws)
              record == simple_last'.record
              row == ws[simple_last'.row]
          IN /\ simple_last'.kind = "secondary"
             /\ row[2] = StrfDate(record.start_datetime)
             /\ row[4] = Join(record.person_names.list)]_vars

\* C29 as stated: an upsert that finds neither a primary nor a secondary
\* match leaves the sheet with exactly one more data row, which holds the
\* record's four values, and with every row it had before unchanged.
C29_Original_InsertAppendsOneRow ==
    [][(SimpleUpsertDone /\ simple_last'.kind = "insert")
       => LET ws == EnsureSimpleSheet(simple_ws)
              before == GetAllValues(ws)
              after == GetAllValues(simple_ws')
          IN /\ Len(after) = Len(before) + 1
             /\ SubSeq(after[Len(after)], 1, 4) = NewRowData(simple_last'.record)
             /\ \A i \in 1..Len(before) : simple_ws'[i] = ws[i]]_vars

-----------------------------------------------------------------------------
(* sync_calendar_to_sheets: the counts of the summary *)

\* the pass returned its summary from the end of the try block, not from the
\* outer except
ReturnedWithoutFatalFailure(p) ==
    sync_result[p].returned /\ "sync" \notin Range(sync_result[p].error_details)

\* C28 as stated: when a pass completes without a fatal failure, every event
\* that matches the inclusion filter is accounted for: matched_b_events =
\* upserted + errors and total_events = matched_b_events + skipped, an event
\* whose processing raised being counted in errors.
C28_Original_SummaryAccounting ==
    ReturnedWithoutFatalFailure(1) =>
        /\ sync_result[1].matched_b_events
             = sync_result[1].upserted + sync_result[1].errors
        /\ sync_result[1].total_events
             = sync_result[1].matched_b_events + sync_result[1].skipped

-----------------------------------------------------------------------------
(* cleanup_old_records: the rows it must leave alone *)

\* the rows of ws that are not older than cutoff_date, in row order
RowsToKeep(ws, cutoff_date) ==
    SelectSeq(ws, LAMBDA row : ~OlderThan(row, cutoff_date))

\* C30 as stated: cleanup_old_records deletes only rows whose own
\* last-updated timestamp is older than the horizon; every row whose
\* timestamp is at or after the horizon is still present and unchanged.
C30_Original_OnlyStaleRowsDeleted ==
    [][(\E days_to_keep \in DaysToKeep, readOk \in BOOLEAN,
           failing \in SUBSET (1..MaxRows) : Cleanup(days_to_keep, readOk, failing))
       => RowsToKeep(worksheet', cl'.cutoff_date)
            = RowsToKeep(worksheet, cl'.cutoff_date)]_vars

=============================================================================
